---- MODULE Spec2Model ----
(***************************************************************************)
(* The playground proxy forwarder (registerPlaygroundProxyRoute) and the   *)
(* playground submission pipeline (Playground.queryMutation.mutationFn).   *)
(*                                                                         *)
(* Text that the code inspects or transforms (method names, header names,  *)
(* URLs, secrets, query strings) is a sequence of one-character strings,   *)
(* so that toUpperCase, toLowerCase, trim, URL parsing and query-string    *)
(* building are computed.  Fixed messages are plain TLA+ strings.          *)
(***************************************************************************)
EXTENDS Integers, Sequences, FiniteSets, TLC

VARIABLES
    \* ---- proxy forwarder: one POST to the proxy route
    ppc,        \* position of the POST handler: idle, readJson, fetch, text, done
    raw,        \* the request body that readJson will deliver
    fetchCalls, \* the upstream fetch calls started by the handler
    upstream,   \* the upstream Response the handler holds after fetch resolved
    thrown,     \* the exception raised inside the handler's try block, if any
    responses,  \* the responses sent on res, in order
    \* ---- playground: one Playground instance
    op,         \* its props: method, isSigned, and the identities that exist
    form,       \* the form values (PlaygroundForm)
    showSelectIdentity,     \* the identity dialog is open
    pc,         \* position of mutationFn: idle, signing, authorizing, proxy,
                \* reading, succeeded, failed
    signedData, \* mutationFn's copy of the submitted form values
    toSign,     \* the text handed to hmacSha256Hex
    request,    \* finalUrl, requestHeadersForSend, requestBodyForSend
    tmpReq,     \* the headers of the provisional Request given to the hook
    warningTimeout,         \* the warning timer: none, armed, fired, cleared
    showLongRunningWarning,
    abortControllerRef,     \* abortControllerRef.current
    signal,     \* the controller this run created and the signal its fetch got
    hookCalls,  \* the authorizeRequest calls made
    proxyCalls, \* the envelopes POSTed to the proxy
    proxyRes,   \* the proxy's response, once fetch has resolved
    outcome,    \* how the mutation settled: its result or its error
    earlier,    \* the submissions that a later one superseded while pending
    \* the documentation page
    operation,  \* the operation's extensions["x-signed"]
    view        \* isSigned of the rendered operation view

proxyVars == <<ppc, raw, fetchCalls, upstream, thrown, responses>>

pgVars == <<op, form, showSelectIdentity, pc, signedData, toSign, request, tmpReq,
            warningTimeout, showLongRunningWarning, abortControllerRef, signal,
            hookCalls, proxyCalls, proxyRes, outcome, earlier>>

docVars == <<operation, view>>

vars == <<proxyVars, pgVars, docVars>>

(***************************************************************************)
(* Bounds of the model.                                                    *)
(***************************************************************************)
\* longest header list of a proxy payload
MaxHdrs == 2
\* longest header list of a form
MaxHeaders == 2
\* longest query parameter list of a form
MaxParams == 2
\* most submissions that are superseded while pending
MaxEarlier == 1
\* a form is submitted again only while fewer proxy calls and fewer hook
\* calls than this were made
MaxCalls == 2
\* a form is submitted again only while fewer abort controllers than this
\* were created
MaxControllers == 2

(***************************************************************************)
(* Text.                                                                   *)
(***************************************************************************)
Lowers == <<"a","b","c","d","e","f","g","h","i","j","k","l","m",
            "n","o","p","q","r","s","t","u","v","w","x","y","z">>
Uppers == <<"A","B","C","D","E","F","G","H","I","J","K","L","M",
            "N","O","P","Q","R","S","T","U","V","W","X","Y","Z">>

UpperChar(c) ==
    IF \E i \in DOMAIN Lowers : Lowers[i] = c
    THEN Uppers[CHOOSE i \in DOMAIN Lowers : Lowers[i] = c]
    ELSE c

LowerChar(c) ==
    IF \E i \in DOMAIN Uppers : Uppers[i] = c
    THEN Lowers[CHOOSE i \in DOMAIN Uppers : Uppers[i] = c]
    ELSE c

\* String.prototype.toUpperCase / toLowerCase
toUpperCase(s) == [i \in DOMAIN s |-> UpperChar(s[i])]
toLowerCase(s) == [i \in DOMAIN s |-> LowerChar(s[i])]

\* an optional value: undefined, or a value
None == [has |-> FALSE, v |-> <<>>]
Some(x) == [has |-> TRUE, v |-> x]
\* undefined, where the value would be a fixed message or an identity id
NoneS == [has |-> FALSE, v |-> ""]

\* JavaScript truthiness of an optional string: undefined and "" are falsy
Truthy(o) == o.has /\ o.v # <<>>

\* text constants
GET == <<"G","E","T">>
HEAD == <<"H","E","A","D">>
POST == <<"P","O","S","T">>
S_get == <<"g","e","t">>
S_Head == <<"H","e","a","d">>
S_post == <<"p","o","s","t">>
S_host == <<"h","o","s","t">>
S_Host == <<"H","o","s","t">>
S_connection == <<"c","o","n","n","e","c","t","i","o","n">>
S_contentLength == <<"c","o","n","t","e","n","t","-","l","e","n","g","t","h">>
S_CONTENT_LENGTH == <<"C","O","N","T","E","N","T","-","L","E","N","G","T","H">>
S_Accept == <<"A","c","c","e","p","t">>
S_https == <<"h","t","t","p","s">>
S_http == <<"h","t","t","p">>
S_etag == <<"e","t","a","g">>
S_appJson == <<"j","s","o","n">>
S_contentType == <<"c","o","n","t","e","n","t","-","t","y","p","e">>

\* URLs a client may put in a payload
U_https == <<"h","t","t","p","s",":","/","/","a">>
U_HTTPS == <<"H","T","T","P","S",":","/","/","a">>
U_http == <<"h","t","t","p",":","/","/","a">>
U_ftp == <<"f","t","p",":","/","/","a">>
U_nohost == <<"h","t","t","p","s",":","/","/">>
U_noscheme == <<"a","/","b">>

(***************************************************************************)
(* new URL(url): the scheme is the text before the first ":", lower-cased; *)
(* parsing fails when there is no scheme, and for http(s) when the host is *)
(* empty.  Only the protocol of the parsed URL is read by the handler.     *)
(***************************************************************************)
RECURSIVE DropSlashes(_)
DropSlashes(s) ==
    IF s # <<>> /\ Head(s) = "/" THEN DropSlashes(Tail(s)) ELSE s

ColonAt(url) ==
    IF \E i \in DOMAIN url : url[i] = ":"
    THEN CHOOSE i \in DOMAIN url : url[i] = ":" /\ \A j \in 1..(i-1) : url[j] # ":"
    ELSE 0

IsLetter(c) == \E i \in DOMAIN Lowers : Lowers[i] = c \/ Uppers[i] = c

ParseURL(url) ==
    LET i == ColonAt(url)
        scheme == toLowerCase(SubSeq(url, 1, i - 1))
        rest == SubSeq(url, i + 1, Len(url))
    IN  IF i <= 1 \/ \E j \in 1..(i-1) : ~IsLetter(url[j])
        THEN [ok |-> FALSE, protocol |-> <<>>]
        ELSE IF scheme \in {S_http, S_https} /\ DropSlashes(rest) = <<>>
        THEN [ok |-> FALSE, protocol |-> <<>>]
        ELSE [ok |-> TRUE, protocol |-> scheme \o <<":">>]

(***************************************************************************)
(* Proxy forwarder.                                                        *)
(***************************************************************************)
Digits == <<"0", "1", "2", "3", "4", "5", "6", "7", "8", "9">>
IsDigit(c) == \E i \in DOMAIN Digits : Digits[i] = c

\* a key that a JavaScript object treats as an integer index: a decimal
\* numeral without a leading zero
IsArrayIndex(k) ==
    /\ k # <<>>
    /\ \A i \in DOMAIN k : IsDigit(k[i])
    /\ (Len(k) = 1 \/ k[1] # "0")

RECURSIVE IndexValue(_)
IndexValue(k) ==
    IF k = <<>> THEN 0
    ELSE 10 * IndexValue(SubSeq(k, 1, Len(k) - 1))
         + ((CHOOSE i \in DOMAIN Digits : Digits[i] = k[Len(k)]) - 1)

\* a JavaScript object with string keys, as the sequence of its entries in
\* the order Object.entries lists them: obj[k] = v keeps the place of a key
\* that exists, puts a new integer index among the integer indices, which
\* come first in ascending order, and any other new key last
ObjSet(obj, k, v) ==
    IF \E i \in DOMAIN obj : obj[i][1] = k
    THEN [i \in DOMAIN obj |-> IF obj[i][1] = k THEN <<k, v>> ELSE obj[i]]
    ELSE IF IsArrayIndex(k)
    THEN LET lower(e) == IsArrayIndex(e[1]) /\ IndexValue(e[1]) < IndexValue(k)
         IN  SelectSeq(obj, lower) \o << <<k, v>> >> \o SelectSeq(obj, LAMBDA e : ~lower(e))
    ELSE Append(obj, <<k, v>>)

\* the header names that are never forwarded
HopByHop == {S_host, S_connection, S_contentLength}

SkipHeader_CaseSensitive(k) == k = <<>> \/ k \in HopByHop

\* the two `continue`s of the header loop
SkipHeader(k) == k = <<>> \/ toLowerCase(k) \in HopByHop

RECURSIVE BuildHeadersObj(_, _)
BuildHeadersObj(list, obj) ==
    IF list = <<>> THEN obj
    ELSE LET k == Head(list)[1]
             v == Head(list)[2]
         IN  BuildHeadersObj(Tail(list),
                             IF SkipHeader(k) THEN obj ELSE ObjSet(obj, k, v))

headersObj(payload) ==
    BuildHeadersObj(IF payload.headers.has THEN payload.headers.v ELSE <<>>, <<>>)

ForwardBody_Always(method, body) == body

\* body: ["GET", "HEAD"].includes(method) ? undefined : payload.body
ForwardBody(method, body) == IF method \in {GET, HEAD} THEN None ELSE body

AllowedProtocol_Any(u) == u.protocol \in {S_https \o <<":">>, S_http \o <<":">>}

\* u.protocol === "https:"
AllowedProtocol(u) == u.protocol = S_https \o <<":">>

NoJson == [status |-> 0, headers |-> <<>>, body |-> <<>>, size |-> 0, contentType |-> <<>>]

Reply(status, type, text, json) ==
    [status |-> status, type |-> type, text |-> text, json |-> json]

MsgInvalidPayload == "Invalid payload. Expected { method, url, headers?, body? }"
MsgInvalidURL == "Invalid URL"
MsgOnlyHttps == "Only https URLs are allowed"

Validate_UrlFirst(payload) ==
    IF Truthy(payload.url) /\ ~ParseURL(payload.url.v).ok THEN MsgInvalidURL
    ELSE IF ~Truthy(payload.url) \/ ~Truthy(payload.method) THEN MsgInvalidPayload
    ELSE IF ~AllowedProtocol(ParseURL(payload.url.v)) THEN MsgOnlyHttps
    ELSE "ok"

\* the three checks of the handler, in the order the code makes them
Validate(payload) ==
    IF ~Truthy(payload.url) \/ ~Truthy(payload.method) THEN MsgInvalidPayload
    ELSE IF ~ParseURL(payload.url.v).ok THEN MsgInvalidURL
    ELSE IF ~AllowedProtocol(ParseURL(payload.url.v)) THEN MsgOnlyHttps
    ELSE "ok"

\* the upstream call of a valid payload
UpstreamCall(payload) ==
    LET method == toUpperCase(payload.method.v)
    IN  [url |-> payload.url.v,
         method |-> method,
         headers |-> headersObj(payload),
         body |-> ForwardBody(method, payload.body)]

CatchReply_Ok(err) ==
    Reply(200, "text/plain", IF err.has THEN err.v ELSE "Proxy error", NoJson)

\* the catch block: 500 text/plain with err?.message ?? "Proxy error"
CatchReply(err) ==
    Reply(500, "text/plain", IF err.has THEN err.v ELSE "Proxy error", NoJson)

\* Headers.get(name) ?? ""
HeaderOrEmpty(headers, name) ==
    IF \E i \in DOMAIN headers : headers[i][1] = name
    THEN headers[CHOOSE i \in DOMAIN headers : headers[i][1] = name][2]
    ELSE <<>>

SuccessReply_UpstreamStatus(up, text) ==
    Reply(up.status, "application/json", "",
          [status |-> up.status, headers |-> up.headers, body |-> text,
           size |-> Len(text),
           contentType |-> HeaderOrEmpty(up.headers, S_contentType)])

\* the 200 application/json answer built from the upstream response
SuccessReply(up, text) ==
    Reply(200, "application/json", "",
          [status |-> up.status, headers |-> up.headers, body |-> text,
           size |-> Len(text),
           contentType |-> HeaderOrEmpty(up.headers, S_contentType)])

NoUpstream == [status |-> 0, headers |-> <<>>, text |-> None]

NoThrow == [raised |-> FALSE, err |-> NoneS]

\* an exception raised inside try: control passes to the catch block
Throw(err) ==
    /\ thrown' = [raised |-> TRUE, err |-> err]
    /\ responses' = Append(responses, CatchReply(err))
    /\ ppc' = "done"

\* readJson delivers raw: (stream) the request emits "error", (malformed)
\* JSON.parse throws, (empty) no data, so {}, (json) the parsed payload.
\* app.post handler, from its start to the first suspension after readJson:
\* the payload checks, the header loop and the start of the upstream fetch
PostReadJson ==
    /\ UNCHANGED <<pgVars, docVars>>
    /\ ppc = "readJson"
    /\ \/ /\ raw.kind = "stream"
          /\ Throw(Some("socket hang up"))
          /\ UNCHANGED <<raw, fetchCalls, upstream>>
       \/ /\ raw.kind = "malformed"
          /\ Throw(Some("Unexpected token"))
          /\ UNCHANGED <<raw, fetchCalls, upstream>>
       \/ /\ raw.kind \in {"empty", "json"}
          /\ Validate(raw.payload) # "ok"
          /\ responses' = Append(responses, Reply(400, "default", Validate(raw.payload), NoJson))
          /\ ppc' = "done"
          /\ UNCHANGED <<raw, fetchCalls, upstream, thrown>>
       \/ /\ raw.kind \in {"empty", "json"}
          /\ Validate(raw.payload) = "ok"
          /\ fetchCalls' = Append(fetchCalls, UpstreamCall(raw.payload))
          /\ ppc' = "fetch"
          /\ UNCHANGED <<raw, upstream, thrown, responses>>

\* what an upstream may answer
UpstreamStatuses == {200, 404, 500}
ContentTypes == {None, Some(S_appJson)}
\* Headers.entries() lists lower-cased names in sorted order
UpstreamHeaders(ct) ==
    IF ct.has THEN << <<S_contentType, ct.v>>, <<S_etag, <<"1">> >> >>
    ELSE << <<S_etag, <<"1">> >> >>
UpstreamTexts == {<<>>, <<"{","a","}">>}

\* await fetch(...) settles: it rejects (network, DNS), or resolves
FetchSettles ==
    /\ UNCHANGED <<pgVars, docVars>>
    /\ ppc = "fetch"
    /\ \/ /\ \E err \in {Some("fetch failed"), Some("getaddrinfo ENOTFOUND"), NoneS} :
                Throw(err)
          /\ UNCHANGED <<raw, fetchCalls, upstream>>
       \/ /\ \E st \in UpstreamStatuses, ct \in ContentTypes :
                upstream' = [status |-> st, headers |-> UpstreamHeaders(ct), text |-> None]
          /\ ppc' = "text"
          /\ UNCHANGED <<raw, fetchCalls, thrown, responses>>

\* await upstream.text() settles, and the 200 answer is sent
TextSettles ==
    /\ UNCHANGED <<pgVars, docVars>>
    /\ ppc = "text"
    /\ \/ /\ Throw(Some("terminated"))
          /\ UNCHANGED <<raw, fetchCalls, upstream>>
       \/ /\ \E text \in UpstreamTexts :
                /\ upstream' = [upstream EXCEPT !.text = Some(text)]
                /\ responses' = Append(responses, SuccessReply(upstream, text))
          /\ ppc' = "done"
          /\ UNCHANGED <<raw, fetchCalls, thrown>>

ProxyNext == PostReadJson \/ FetchSettles \/ TextSettles

\* payloads a client may POST
Methods == {None, Some(<<>>), Some(GET), Some(S_get), Some(S_Head), Some(S_post)}
Urls == {None, Some(<<>>), Some(U_https), Some(U_HTTPS), Some(U_http), Some(U_ftp),
         Some(U_nohost), Some(U_noscheme)}
HeaderNames == {<<>>, S_Host, S_CONTENT_LENGTH, S_Accept}
HeaderValues == {<<"1">>, <<"2">>}
HeaderPairs == {<<k, v>> : k \in HeaderNames, v \in HeaderValues}
HeaderLists == UNION {[1..n -> HeaderPairs] : n \in 0..MaxHdrs}
Bodies == {None, Some(<<"b">>)}
Payloads ==
    [method : Methods, url : Urls, headers : {None} \cup {Some(l) : l \in HeaderLists},
     body : Bodies]
EmptyPayload == [method |-> None, url |-> None, headers |-> None, body |-> None]
RawRequests ==
    {[kind |-> "stream", payload |-> EmptyPayload],
     [kind |-> "malformed", payload |-> EmptyPayload],
     [kind |-> "empty", payload |-> EmptyPayload]}
    \cup {[kind |-> "json", payload |-> p] : p \in Payloads}

(***************************************************************************)
(* Playground: the helpers of the submission pipeline.                     *)
(***************************************************************************)
NO_IDENTITY == "__none"

S_timestamp == <<"t","i","m","e","s","t","a","m","p">>
S_signature == <<"s","i","g","n","a","t","u","r","e">>
S_symbol == <<"s","y","m","b","o","l">>
S_APIKEY == <<"X","-","M","B","X","-","A","P","I","K","E","Y">>
S_ContentType == <<"C","o","n","t","e","n","t","-","T","y","p","e">>

\* whitespace, as String.prototype.trim sees it
IsSpace(c) == c = " "

RECURSIVE TrimStart(_)
TrimStart(s) == IF s # <<>> /\ IsSpace(Head(s)) THEN TrimStart(Tail(s)) ELSE s

RECURSIVE TrimEnd(_)
TrimEnd(s) ==
    IF s # <<>> /\ IsSpace(s[Len(s)]) THEN TrimEnd(SubSeq(s, 1, Len(s) - 1)) ELSE s

\* String.prototype.trim
trim(s) == TrimEnd(TrimStart(s))

\* encodeURIComponent: letters, digits and - _ . ! ~ * ' ( ) are kept, the
\* other characters of the model's alphabet are percent-encoded
Escapes ==
    << <<" ", <<"%","2","0">> >>, <<"&", <<"%","2","6">> >>, <<"=", <<"%","3","D">> >>,
       <<"{", <<"%","7","B">> >>, <<"}", <<"%","7","D">> >>, <<":", <<"%","3","A">> >>,
       <<"#", <<"%","2","3">> >>, <<",", <<"%","2","C">> >>, <<"/", <<"%","2","F">> >> >>

EncodeChar(c) ==
    IF \E i \in DOMAIN Escapes : Escapes[i][1] = c
    THEN Escapes[CHOOSE i \in DOMAIN Escapes : Escapes[i][1] = c][2]
    ELSE <<c>>

RECURSIVE encodeURIComponent(_)
encodeURIComponent(s) ==
    IF s = <<>> THEN <<>> ELSE EncodeChar(Head(s)) \o encodeURIComponent(Tail(s))

\* pairs.join("&")
RECURSIVE JoinAmp(_)
JoinAmp(parts) ==
    IF parts = <<>> THEN <<>>
    ELSE IF Len(parts) = 1 THEN parts[1]
    ELSE parts[1] \o <<"&">> \o JoinAmp(Tail(parts))

\* buildQueryString: key=encodeURIComponent(value) for every entry of the
\* object, joined with "&" (the values of the model are strings, never
\* null or undefined)
buildQueryString(params) ==
    JoinAmp([i \in DOMAIN params |->
                params[i][1] \o <<"=">> \o encodeURIComponent(params[i][2])])

\* hmacSha256Hex: the digest, as a text that determines secret and message
hmacSha256Hex(secret, message) == <<"#">> \o secret \o <<"#">> \o message

RECURSIVE RecordFromPairs(_, _)
RecordFromPairs(pairs, out) ==
    IF pairs = <<>> THEN out
    ELSE LET p == Head(pairs)
         IN  RecordFromPairs(Tail(pairs),
                             IF p.name = <<>> \/ ~p.active THEN out
                             ELSE ObjSet(out, p.name, p.value))

\* toRecordFromActivePairs: out[p.name] = p.value for the named, active pairs
toRecordFromActivePairs(pairs) == RecordFromPairs(pairs, <<>>)

\* JSON.parse of the body texts of the model: an object text yields its
\* top-level entries, an array text yields an array, anything else throws
JsonParse(t) ==
    IF t = <<"{","}">> THEN [kind |-> "object", entries |-> <<>>]
    ELSE IF Len(t) = 5 /\ t[1] = "{" /\ t[3] = ":" /\ t[5] = "}"
    THEN [kind |-> "object", entries |-> << <<(<<t[2]>>), <<t[4]>> >> >>]
    ELSE IF t = <<"[","]">> THEN [kind |-> "array", entries |-> <<>>]
    ELSE [kind |-> "throws", entries |-> <<>>]

tryParseJsonObject_NoTrim(text) ==
    IF text = <<>> THEN None
    ELSE IF ~(Head(text) = "{" /\ text[Len(text)] = "}") THEN None
    ELSE IF JsonParse(text).kind = "object" THEN Some(JsonParse(text).entries)
    ELSE None

\* tryParseJsonObject: the entries of a JSON object text, else undefined
tryParseJsonObject(text) ==
    LET t == trim(text)
    IN  IF t = <<>> THEN None
        ELSE IF ~(Head(t) = "{" /\ t[Len(t)] = "}") THEN None
        ELSE IF JsonParse(t).kind = "object" THEN Some(JsonParse(t).entries)
        ELSE None

FirstIndex(params, name) ==
    IF \E i \in DOMAIN params : params[i].name = name
    THEN CHOOSE i \in DOMAIN params :
            params[i].name = name /\ \A j \in 1..(i-1) : params[j].name # name
    ELSE 0

upsertActiveParam_Prepend(params, name, value) ==
    <<[name |-> name, value |-> value, active |-> TRUE]>> \o params

upsertActiveParam_Inactive(params, name, value) ==
    LET idx == FirstIndex(params, name)
    IN  IF idx >= 1
        THEN [params EXCEPT ![idx] = [@ EXCEPT !.value = value]]
        ELSE Append(params, [name |-> name, value |-> value, active |-> TRUE])

\* upsertActiveParam: the first entry of that name is replaced in place by
\* an active entry with the value, or an active entry is pushed
upsertActiveParam(params, name, value) ==
    LET idx == FirstIndex(params, name)
    IN  IF idx >= 1
        THEN [params EXCEPT ![idx] = [@ EXCEPT !.value = value, !.active = TRUE]]
        ELSE Append(params, [name |-> name, value |-> value, active |-> TRUE])

\* getHeaderValue: the trimmed value of the first header of that name, or
\* "" when there is none or when that first one is not active
getHeaderValue(headers, headerName) ==
    LET idx == FirstIndex(headers, headerName)
    IN  IF idx = 0 \/ ~headers[idx].active THEN <<>>
        ELSE trim(headers[idx].value)

\* character order, for the sorted iteration of a Headers object
Ascii ==
    <<" ", "#", "%", "&", ",", "-", "/", "0", "1", "2", "3", "4", "5", "6", "7", "8", "9",
      ":", "=">> \o Uppers \o <<"[", "]", "_">> \o Lowers \o <<"{", "}">>

CharCode(c) == CHOOSE i \in DOMAIN Ascii : Ascii[i] = c

RECURSIVE StrLess(_, _)
StrLess(a, b) ==
    IF b = <<>> THEN FALSE
    ELSE IF a = <<>> THEN TRUE
    ELSE IF Head(a) = Head(b) THEN StrLess(Tail(a), Tail(b))
    ELSE CharCode(Head(a)) < CharCode(Head(b))

\* window.Headers, as its entries(): names lower-cased, values trimmed, a
\* repeated name combined with ", ", sorted by name
HeadersAppend(h, name, value) ==
    LET k == toLowerCase(name)
        v == trim(value)
    IN  IF \E i \in DOMAIN h : h[i][1] = k
        THEN [i \in DOMAIN h |->
                 IF h[i][1] = k THEN <<k, h[i][2] \o <<",", " ">> \o v>> ELSE h[i]]
        ELSE LET before == SelectSeq(h, LAMBDA e : StrLess(e[1], k))
                 after == SelectSeq(h, LAMBDA e : ~StrLess(e[1], k))
             IN  before \o << <<k, v>> >> \o after

RECURSIVE HeadersInit(_, _)
HeadersInit(list, h) ==
    IF list = <<>> THEN h
    ELSE HeadersInit(Tail(list), HeadersAppend(h, Head(list)[1], Head(list)[2]))

HeadersHas(h, name) == \E i \in DOMAIN h : h[i][1] = toLowerCase(name)

\* Headers.delete(name)
HeadersDelete(h, name) == SelectSeq(h, LAMBDA e : e[1] # toLowerCase(name))

\* Headers.set(name, value)
HeadersSet(h, name, value) == HeadersAppend(HeadersDelete(h, name), name, value)

hdrsOf_WithSecret(data) ==
    LET act == SelectSeq(data.headers, LAMBDA x : x.name # <<>> /\ x.active)
    IN  HeadersInit([i \in DOMAIN act |->
                        <<act[i].name,
                          IF act[i].name = S_APIKEY THEN data.apiSecret ELSE act[i].value>>],
                    <<>>)

hdrsOf_All(data) ==
    LET act == SelectSeq(data.headers, LAMBDA x : x.name # <<>>)
    IN  HeadersInit([i \in DOMAIN act |-> <<act[i].name, act[i].value>>], <<>>)

\* new window.Headers(active, named form headers)
hdrsOf(data) ==
    LET act == SelectSeq(data.headers, LAMBDA x : x.name # <<>> /\ x.active)
    IN  HeadersInit([i \in DOMAIN act |-> <<act[i].name, act[i].value>>], <<>>)

\* a request body: undefined, a string, a File or a FormData
NoBody == [kind |-> "undefined", text |-> <<>>, fields |-> <<>>]
TextBody(t) == [kind |-> "text", text |-> t, fields |-> <<>>]
FileBody(f) == [kind |-> "file", text |-> f, fields |-> <<>>]
FormBody(fs) == [kind |-> "form", text |-> <<>>, fields |-> fs]

\* the switch on bodyMode: the body
bodyOf(data) ==
    IF data.bodyMode = "file"
    THEN (IF data.file.has THEN FileBody(data.file.v) ELSE NoBody)
    ELSE IF data.bodyMode = "multipart"
    THEN FormBody(SelectSeq(data.multipartFormFields,
                            LAMBDA x : x.name # <<>> /\ x.active))
    ELSE (IF data.body # <<>> THEN TextBody(data.body) ELSE NoBody)

\* the switch on bodyMode: hdrs.delete("Content-Type") for file and multipart
hdrsForMode(data) ==
    IF data.bodyMode \in {"file", "multipart"}
    THEN HeadersDelete(hdrsOf(data), S_ContentType)
    ELSE hdrsOf(data)

requestBodyForSend_Always(method, body) == body

\* ["GET", "HEAD"].includes(method.toUpperCase()) ? undefined : body
requestBodyForSend(method, body) ==
    IF toUpperCase(method) \in {GET, HEAD} THEN NoBody ELSE body

\* createUrl(server, url, data): the query of the final URL is made of the
\* active query params, in their order
createUrl(data) ==
    LET act == SelectSeq(data.queryParams, LAMBDA x : x.active)
    IN  [base |-> U_https, query |-> [i \in DOMAIN act |-> <<act[i].name, act[i].value>>]]

\* new Request(finalUrl, {method, headers, body}): a body with a type adds a
\* Content-Type header when the headers have none. A string and a FormData
\* have a type; a File has the type of the file, which may be empty
S_textPlain == <<"t","e","x","t">>
S_multipart == <<"m","u","l","t","i","p","a","r","t">>
S_octet == <<"o","c","t","e","t">>
UntypedFile == <<"u">>
BodyType(body) ==
    IF body.kind = "text" THEN S_textPlain
    ELSE IF body.kind = "form" THEN S_multipart
    ELSE IF body.kind = "file" /\ body.text # UntypedFile THEN S_octet
    ELSE <<>>

tmpReqHeaders(hdrs, body) ==
    IF BodyType(body) # <<>> /\ ~HeadersHas(hdrs, S_ContentType)
    THEN HeadersAppend(hdrs, S_ContentType, BodyType(body))
    ELSE hdrs

\* the body field of the proxy envelope: only a string body is put in it
envelopeBody(body) == IF body.kind = "text" THEN Some(body.text) ELSE None

\* JSON.stringify({method, url, headers, body}), as the forwarder parses it
envelope(method, finalUrl, headers, body) ==
    [method |-> toUpperCase(method), url |-> finalUrl, headers |-> headers,
     body |-> envelopeBody(body)]

MsgSecret == "API Secret is required for signed endpoints."
MsgApiKey == "Missing X-MBX-APIKEY header. Enable it in Headers and provide your API key."
MsgNetwork == "The request failed, possibly due to network issues or proxy issues."

Precondition_KeyFirst(data, apiKeyHeaderName) ==
    IF getHeaderValue(data.headers, apiKeyHeaderName) = <<>> THEN MsgApiKey
    ELSE IF trim(data.apiSecret) = <<>> THEN MsgSecret
    ELSE "ok"

\* the two checks of a signed submission, in the order the code makes them
Precondition(data, apiKeyHeaderName) ==
    IF trim(data.apiSecret) = <<>> THEN MsgSecret
    ELSE IF getHeaderValue(data.headers, apiKeyHeaderName) = <<>> THEN MsgApiKey
    ELSE "ok"

\* the query params after the timestamp upsert
withTimestamp(data, now) == upsertActiveParam(data.queryParams, S_timestamp, now)

toSignOf_WithSignature(data, now) ==
    LET qp == toRecordFromActivePairs(withTimestamp(data, now))
        bodyParams == IF data.bodyMode = "text" THEN tryParseJsonObject(data.body) ELSE None
        queryParamsString == buildQueryString(qp)
        bodyParamsString == IF bodyParams.has THEN buildQueryString(bodyParams.v) ELSE <<>>
    IN  JoinAmp(SelectSeq(<<queryParamsString, bodyParamsString>>, LAMBDA x : x # <<>>))

toSignOf_SentBodyOnly(data, now) ==
    LET qp == toRecordFromActivePairs(
                  SelectSeq(withTimestamp(data, now), LAMBDA x : x.name # S_signature))
        bodyParams == IF data.bodyMode = "text" /\ toUpperCase(op.method) \notin {GET, HEAD}
                      THEN tryParseJsonObject(data.body) ELSE None
        queryParamsString == buildQueryString(qp)
        bodyParamsString == IF bodyParams.has THEN buildQueryString(bodyParams.v) ELSE <<>>
    IN  JoinAmp(SelectSeq(<<queryParamsString, bodyParamsString>>, LAMBDA x : x # <<>>))

\* the text that is signed
toSignOf(data, now) ==
    LET qp == toRecordFromActivePairs(
                  SelectSeq(withTimestamp(data, now), LAMBDA x : x.name # S_signature))
        bodyParams == IF data.bodyMode = "text" THEN tryParseJsonObject(data.body) ELSE None
        queryParamsString == buildQueryString(qp)
        bodyParamsString == IF bodyParams.has THEN buildQueryString(bodyParams.v) ELSE <<>>
    IN  JoinAmp(SelectSeq(<<queryParamsString, bodyParamsString>>, LAMBDA x : x # <<>>))

(***************************************************************************)
(* Playground: the submission.                                             *)
(***************************************************************************)
\* Date.now(), as text
Clock == {<<"9">>}

NoData ==
    [apiSecret |-> <<>>, body |-> <<>>, bodyMode |-> "text", file |-> None,
     multipartFormFields |-> <<>>, queryParams |-> <<>>, headers |-> <<>>,
     identity |-> NoneS]
NoRequest == [finalUrl |-> [base |-> <<>>, query |-> <<>>], headers |-> <<>>, body |-> NoBody]
NoProxyRes == [ok |-> FALSE, status |-> 0, text |-> "", json |-> NoJson]
NoResult ==
    [status |-> 0, headers |-> <<>>, size |-> 0, body |-> <<>>,
     request |-> [method |-> <<>>, url |-> [base |-> <<>>, query |-> <<>>],
                  headers |-> <<>>, body |-> <<>>]]
NoOutcome == [state |-> "none", message |-> "", result |-> NoResult]

Failed(message) == [state |-> "error", message |-> message, result |-> NoResult]

\* abortControllerRef.current before the first controller is created
NoController == [created |-> FALSE, aborted |-> FALSE, reason |-> "", id |-> 0]
\* a run that has created no controller and called no fetch
NoSignal == [own |-> 0, id |-> 0, aborted |-> FALSE, reason |-> ""]

\* new AbortController(), the next one after ref
NewController(ref) == [created |-> TRUE, aborted |-> FALSE, reason |-> "", id |-> ref.id + 1]

\* signal: abortControllerRef.current.signal, as fetch reads it from ref in a
\* run that created the controller own
Bind(own, ref) == [own |-> own, id |-> ref.id, aborted |-> ref.aborted, reason |-> ref.reason]

Catch_RemapAll(error) ==
    /\ warningTimeout' = "cleared"
    /\ showLongRunningWarning' = FALSE
    /\ outcome' = Failed(MsgNetwork)
    /\ pc' = "failed"

Catch_KeepWarning(error) ==
    /\ UNCHANGED <<warningTimeout, showLongRunningWarning>>
    /\ outcome' = Failed(IF error.type = "TypeError" THEN MsgNetwork ELSE error.message)
    /\ pc' = "failed"

\* the catch block of mutationFn: the timer is cleared, the flag reset, and
\* the error rethrown, a TypeError as the network message
Catch(error) ==
    /\ warningTimeout' = "cleared"
    /\ showLongRunningWarning' = FALSE
    /\ outcome' = Failed(IF error.type = "TypeError" THEN MsgNetwork ELSE error.message)
    /\ pc' = "failed"

\* fetch(proxyUrl, ...) is called with the envelope
Dispatch(data, headers, body) ==
    /\ proxyCalls' = Append(proxyCalls,
                            envelope(op.method, createUrl(data), headers, body))
    /\ pc' = "proxy"

\* identities.data?.find((i) => i.id === signedData.identity)
hookFound(data) == data.identity.has /\ data.identity.v \in op.identities

\* mutationFn from createUrl to its next suspension: the request is built,
\* the timer armed, the abort controller replaced, and either the hook's
\* provisional request is made or the proxy call dispatched
Compose(data) ==
    LET body == requestBodyForSend(op.method, bodyOf(data))
        hdrs == hdrsForMode(data)
    IN  /\ request' = [finalUrl |-> createUrl(data), headers |-> hdrs, body |-> body]
        /\ warningTimeout' = "armed"
        /\ abortControllerRef' = NewController(abortControllerRef)
        /\ IF data.identity # Some(NO_IDENTITY)
           THEN /\ tmpReq' = tmpReqHeaders(hdrs, body)
                /\ hookCalls' = IF hookFound(data)
                                THEN Append(hookCalls, data.identity.v)
                                ELSE hookCalls
                /\ pc' = "authorizing"
                /\ signal' = [NoSignal EXCEPT !.own = abortControllerRef'.id]
                /\ UNCHANGED proxyCalls
           ELSE /\ Dispatch(data, hdrs, body)
                /\ signal' = Bind(abortControllerRef'.id, abortControllerRef')
                /\ UNCHANGED <<tmpReq, hookCalls>>

\* queryMutation.mutate(data): mutationFn runs to its first suspension
Mutate(data) ==
    /\ UNCHANGED <<op, proxyRes, showLongRunningWarning>>
    /\ IF op.isSigned
       THEN IF Precondition(data, S_APIKEY) # "ok"
            THEN /\ outcome' = Failed(Precondition(data, S_APIKEY))
                 /\ pc' = "failed"
                 /\ signedData' = data
                 /\ signal' = NoSignal
                 /\ UNCHANGED <<toSign, request, tmpReq, warningTimeout,
                                abortControllerRef, hookCalls, proxyCalls>>
            ELSE \E now \in Clock :
                 /\ signedData' = [data EXCEPT !.queryParams = withTimestamp(data, now)]
                 /\ toSign' = Some(toSignOf(data, now))
                 /\ pc' = "signing"
                 /\ signal' = NoSignal
                 /\ UNCHANGED <<request, tmpReq, warningTimeout, abortControllerRef,
                                hookCalls, proxyCalls, outcome>>
       ELSE /\ signedData' = data
            /\ Compose(data)
            /\ UNCHANGED <<toSign, outcome>>

formAfter_Shared(values, data) == [values EXCEPT !.queryParams = data.queryParams]

\* the form's values once mutationFn has upserted into signedData, here
\* data: signedData is { ...data, queryParams: [...data.queryParams],
\* headers: [...data.headers] }, and upsertActiveParam puts new entry
\* objects into that copy, so the sequences of the form and their entries
\* are as they were
formAfter(values, data) == values

identityKnown_Always(data) == TRUE

\* identities.data?.length === 0 || data.identity
identityKnown(data) == op.identities = {} \/ data.identity.has

\* the form's onSubmit
FormSubmit ==
    /\ pc = "idle" /\ ~showSelectIdentity
    /\ UNCHANGED <<proxyVars, docVars, earlier>>
    /\ IF identityKnown(form)
       THEN /\ Mutate(form)
            /\ form' = formAfter(form, signedData')
            /\ UNCHANGED showSelectIdentity
       ELSE /\ showSelectIdentity' = TRUE
            /\ UNCHANGED <<op, form, pc, signedData, toSign, request, tmpReq,
                           warningTimeout, showLongRunningWarning, abortControllerRef,
                           signal, hookCalls, proxyCalls, proxyRes, outcome>>

\* IdentityDialog's onSubmit
IdentityDialogSubmit ==
    /\ pc = "idle" /\ showSelectIdentity
    /\ UNCHANGED <<proxyVars, docVars, earlier>>
    /\ \E identity \in op.identities \cup {NO_IDENTITY}, rememberedIdentity \in BOOLEAN :
          /\ showSelectIdentity' = FALSE
          /\ Mutate([form EXCEPT !.identity = Some(identity)])
          /\ form' = formAfter(IF rememberedIdentity
                               THEN [form EXCEPT !.identity = Some(identity)]
                               ELSE form,
                               signedData')

\* IdentityDialog's onOpenChange(false): the dialog is closed unanswered
IdentityDialogClose ==
    /\ pc # "off" /\ showSelectIdentity
    /\ showSelectIdentity' = FALSE
    /\ UNCHANGED <<proxyVars, docVars, earlier>>
    /\ UNCHANGED <<op, form, pc, signedData, toSign, request, tmpReq, warningTimeout,
                   showLongRunningWarning, abortControllerRef, signal, hookCalls,
                   proxyCalls, proxyRes, outcome>>

\* await hmacSha256Hex settles: the signature is upserted and mutationFn
\* runs on to its next suspension
SignatureSettles ==
    /\ pc = "signing"
    /\ UNCHANGED <<proxyVars, docVars, earlier>>
    /\ UNCHANGED <<op, showSelectIdentity, toSign, proxyRes, outcome,
                   showLongRunningWarning>>
    /\ LET signature == hmacSha256Hex(trim(signedData.apiSecret), toSign.v)
           data == [signedData EXCEPT
                      !.queryParams = upsertActiveParam(@, S_signature, signature)]
       IN  /\ signedData' = data
           /\ form' = formAfter(form, data)
           /\ Compose(data)

S_authorization == <<"a","u","t","h","o","r","i","z","a","t","i","o","n">>

\* what authorizeRequest, the code of an identity provider, may reject
\* with: an error of its own, or the TypeError of a fetch of its own
HookErrors ==
    {[type |-> "Error", message |-> "Unauthorized"],
     [type |-> "TypeError", message |-> "Failed to fetch"]}

HookSettles_NoSplice ==
    /\ pc = "authorizing"
    /\ UNCHANGED <<proxyVars, docVars, earlier>>
    /\ UNCHANGED <<op, form, showSelectIdentity, signedData, toSign, proxyRes,
                   abortControllerRef, hookCalls>>
    /\ \/ /\ hookFound(signedData)
          /\ \E error \in HookErrors : Catch(error)
          /\ UNCHANGED <<request, tmpReq, proxyCalls, signal>>
       \/ /\ \E t \in IF hookFound(signedData)
                      THEN {tmpReq, HeadersSet(tmpReq, S_authorization, <<"t">>)}
                      ELSE {tmpReq} :
                /\ tmpReq' = t
                /\ Dispatch(signedData, request.headers, request.body)
                /\ signal' = Bind(signal.own, abortControllerRef)
          /\ UNCHANGED <<request, warningTimeout, showLongRunningWarning, outcome>>

\* await authorizeRequest(tmpReq) settles: it throws, or it has left its
\* headers on tmpReq, which replace requestHeadersForSend, and the proxy
\* call is dispatched
HookSettles ==
    /\ pc = "authorizing"
    /\ UNCHANGED <<proxyVars, docVars, earlier>>
    /\ UNCHANGED <<op, form, showSelectIdentity, signedData, toSign, proxyRes,
                   abortControllerRef, hookCalls>>
    /\ \/ /\ hookFound(signedData)
          /\ \E error \in HookErrors : Catch(error)
          /\ UNCHANGED <<request, tmpReq, proxyCalls, signal>>
       \/ /\ \E t \in IF hookFound(signedData)
                      THEN {tmpReq, HeadersSet(tmpReq, S_authorization, <<"t">>)}
                      ELSE {tmpReq} :
                /\ tmpReq' = t
                /\ request' = [request EXCEPT !.headers = t]
                /\ Dispatch(signedData, t, request.body)
                /\ signal' = Bind(signal.own, abortControllerRef)
          /\ UNCHANGED <<warningTimeout, showLongRunningWarning, outcome>>

\* what the proxy may answer
ProxyResponses ==
    {[ok |-> TRUE, status |-> 200, text |-> "",
      json |-> [status |-> 200, headers |-> << <<S_contentType, S_appJson>> >>,
                body |-> <<"{","a","}">>, size |-> 3, contentType |-> S_appJson]],
     [ok |-> TRUE, status |-> 200, text |-> "",
      json |-> [status |-> 404, headers |-> <<>>, body |-> <<>>, size |-> 0,
                contentType |-> <<>>]],
     [ok |-> FALSE, status |-> 400, text |-> MsgOnlyHttps, json |-> NoJson],
     [ok |-> FALSE, status |-> 500, text |-> "fetch failed", json |-> NoJson],
     [ok |-> FALSE, status |-> 502, text |-> "", json |-> NoJson]}

ProxyFailedMsg(status) ==
    IF status = 400 THEN "Proxy request failed (400)"
    ELSE IF status = 500 THEN "Proxy request failed (500)"
    ELSE "Proxy request failed (502)"

\* the value that the promises of an aborted fetch reject with: the reason
\* given to abort(), a string
Reason(reason) == [type |-> "string", message |-> reason]

\* await fetch(proxyUrl) settles: the rejection of an aborted signal, a
\* transport failure, or a response, on which the timer is cleared and the
\* flag reset
ProxyFetchSettles ==
    /\ pc = "proxy"
    /\ UNCHANGED <<proxyVars, docVars, earlier>>
    /\ UNCHANGED <<op, form, showSelectIdentity, signedData, toSign, request, tmpReq,
                   abortControllerRef, signal, hookCalls, proxyCalls>>
    /\ IF signal.aborted
       THEN /\ Catch(Reason(signal.reason))
            /\ UNCHANGED proxyRes
       ELSE \/ /\ Catch([type |-> "TypeError", message |-> "Failed to fetch"])
               /\ UNCHANGED proxyRes
            \/ /\ \E res \in ProxyResponses : proxyRes' = res
               /\ warningTimeout' = "cleared"
               /\ showLongRunningWarning' = FALSE
               /\ pc' = "reading"
               /\ UNCHANGED outcome

\* URL.host of the model's URLs: the text after the scheme and its slashes
HostOf(url) == DropSlashes(SubSeq(url, ColonAt(url) + 1, Len(url)))

S_UserAgent == <<"U","s","e","r","-","A","g","e","n","t">>
S_Playground ==
    <<"B","i","n","a","n","c","e"," ","D","e","v","e","l","o","p","e","r"," ",
      "D","o","c","s"," ","P","l","a","y","g","r","o","u","n","d">>

\* requestBodyDebug
requestBodyDebug(data) ==
    IF data.bodyMode = "file"
    THEN <<"[","F","i","l","e",":"," ">>
         \o (IF data.file.has THEN data.file.v ELSE <<"U","n","k","n","o","w","n">>)
         \o <<"]">>
    ELSE IF data.bodyMode = "multipart"
    THEN <<"[","M","u","l","t","i","p","a","r","t"," ","F","o","r","m"," ",
           "D","a","t","a","]">>
    ELSE data.body

\* the result object of a 2xx proxy response
resultOf(res) ==
    [status |-> res.json.status, headers |-> res.json.headers, size |-> res.json.size,
     body |-> res.json.body,
     request |-> [method |-> toUpperCase(op.method), url |-> request.finalUrl,
                  headers |-> << <<S_Host, HostOf(request.finalUrl.base)>>,
                                 <<S_UserAgent, S_Playground>> >>
                              \o request.headers,
                  body |-> requestBodyDebug(signedData)]]

\* await proxyRes.text() / proxyRes.json() settles: with the body, or, the
\* signal having been aborted before the body was all there, by rejecting
ProxyBodySettles ==
    /\ pc = "reading"
    /\ UNCHANGED <<proxyVars, docVars, earlier>>
    /\ UNCHANGED <<op, form, showSelectIdentity, signedData, toSign, request, tmpReq,
                   abortControllerRef, signal, hookCalls, proxyCalls, proxyRes>>
    /\ \/ /\ signal.aborted
          /\ Catch(Reason(signal.reason))
       \/ IF ~proxyRes.ok
          THEN Catch([type |-> "Error",
                      message |-> IF proxyRes.text # "" THEN proxyRes.text
                                  ELSE ProxyFailedMsg(proxyRes.status)])
          ELSE /\ outcome' = [state |-> "success", message |-> "",
                              result |-> resultOf(proxyRes)]
               /\ pc' = "succeeded"
               /\ UNCHANGED <<warningTimeout, showLongRunningWarning>>

\* the warning timer fires
WarningFires ==
    /\ warningTimeout = "armed"
    /\ warningTimeout' = "fired"
    /\ showLongRunningWarning' = TRUE
    /\ UNCHANGED <<proxyVars, docVars, earlier>>
    /\ UNCHANGED <<op, form, showSelectIdentity, pc, signedData, toSign, request, tmpReq,
                   abortControllerRef, signal, hookCalls, proxyCalls, proxyRes, outcome>>

S_cancelledByUser == "Request cancelled by user"
S_cancelledByTheUser == "Request cancelled by the user"

\* a run of mutationFn after abort(reason) on the controller ref: the
\* listener of the run that created ref clears its timer, and the signal of
\* a fetch that got ref's is aborted
AbortedRun(run, ref, reason) ==
    [run EXCEPT
       !.warningTimeout = IF run.signal.own = ref.id /\ @ = "armed" THEN "cleared" ELSE @,
       !.signal = IF @.id = ref.id THEN [@ EXCEPT !.aborted = TRUE, !.reason = reason]
                  ELSE @]

\* abortControllerRef.current?.abort(reason): nothing without a controller
\* or on one that is aborted already
Abort(reason) ==
    IF abortControllerRef.created /\ ~abortControllerRef.aborted
    THEN LET run == AbortedRun([warningTimeout |-> warningTimeout, signal |-> signal],
                               abortControllerRef, reason)
         IN  /\ abortControllerRef' = [abortControllerRef EXCEPT !.aborted = TRUE,
                                                                 !.reason = reason]
             /\ warningTimeout' = run.warningTimeout
             /\ signal' = run.signal
             /\ earlier' = [k \in DOMAIN earlier |->
                              AbortedRun(earlier[k], abortControllerRef, reason)]
    ELSE UNCHANGED <<abortControllerRef, warningTimeout, signal, earlier>>

\* the Send button's onClick while the mutation is pending, when it reads
\* Cancel
Cancel ==
    /\ pc \in {"signing", "authorizing", "proxy", "reading"}
    /\ Abort(S_cancelledByUser)
    /\ UNCHANGED <<proxyVars, docVars>>
    /\ UNCHANGED <<op, form, showSelectIdentity, pc, signedData, toSign, request, tmpReq,
                   showLongRunningWarning, hookCalls, proxyCalls, proxyRes, outcome>>

\* ResultPanel's onCancel, by the Cancel button that the panel shows with
\* the long-running warning of a pending mutation
PanelCancel ==
    /\ pc \in {"signing", "authorizing", "proxy", "reading"}
    /\ showLongRunningWarning
    /\ Abort(S_cancelledByTheUser)
    /\ showLongRunningWarning' = FALSE
    /\ UNCHANGED <<proxyVars, docVars>>
    /\ UNCHANGED <<op, form, showSelectIdentity, pc, signedData, toSign, request, tmpReq,
                   hookCalls, proxyCalls, proxyRes, outcome>>

PgNext ==
    \/ FormSubmit
    \/ IdentityDialogSubmit
    \/ IdentityDialogClose
    \/ SignatureSettles
    \/ HookSettles
    \/ ProxyFetchSettles
    \/ ProxyBodySettles
    \/ WarningFires
    \/ Cancel
    \/ PanelCancel

(***************************************************************************)
(* Playground: a submission made while another one is pending or done.     *)
(* Every mutate() runs mutationFn anew; the run it supersedes goes on, but *)
(* the mutation observer no longer reports it.                             *)
(***************************************************************************)
Busy == {"signing", "authorizing", "proxy", "reading"}
Done == {"succeeded", "failed"}

\* the locals of the run of mutationFn that the form shows
Current ==
    [pc |-> pc, signedData |-> signedData, toSign |-> toSign, request |-> request,
     tmpReq |-> tmpReq, warningTimeout |-> warningTimeout, proxyRes |-> proxyRes,
     signal |-> signal]

\* a run of mutationFn from createUrl to its next suspension: its locals,
\* the hook it invokes and the proxy call it dispatches
ComposeOf(data, signed) ==
    LET body == requestBodyForSend(op.method, bodyOf(data))
        hdrs == hdrsForMode(data)
        hook == data.identity # Some(NO_IDENTITY)
        controller == NewController(abortControllerRef)
    IN  [sub |-> [pc |-> IF hook THEN "authorizing" ELSE "proxy",
                  signedData |-> data,
                  toSign |-> signed,
                  request |-> [finalUrl |-> createUrl(data), headers |-> hdrs,
                               body |-> body],
                  tmpReq |-> IF hook THEN tmpReqHeaders(hdrs, body) ELSE <<>>,
                  warningTimeout |-> "armed",
                  proxyRes |-> NoProxyRes,
                  signal |-> IF hook THEN [NoSignal EXCEPT !.own = controller.id]
                             ELSE Bind(controller.id, controller)],
         hooks |-> IF hook /\ hookFound(data) THEN <<data.identity.v>> ELSE <<>>,
         calls |-> IF hook THEN <<>>
                   ELSE <<envelope(op.method, createUrl(data), hdrs, body)>>,
         controller |-> TRUE,
         outcome |-> NoOutcome]

\* a run of mutationFn from its start to its first suspension
StartOf(data, now) ==
    LET idle == [pc |-> "failed", signedData |-> data, toSign |-> None,
                 request |-> NoRequest, tmpReq |-> <<>>, warningTimeout |-> "none",
                 proxyRes |-> NoProxyRes, signal |-> NoSignal]
    IN  IF op.isSigned /\ Precondition(data, S_APIKEY) # "ok"
        THEN [sub |-> idle, hooks |-> <<>>, calls |-> <<>>, controller |-> FALSE,
              outcome |-> Failed(Precondition(data, S_APIKEY))]
        ELSE IF op.isSigned
        THEN [sub |-> [idle EXCEPT
                         !.pc = "signing",
                         !.signedData = [data EXCEPT !.queryParams = withTimestamp(data, now)],
                         !.toSign = Some(toSignOf(data, now))],
              hooks |-> <<>>, calls |-> <<>>, controller |-> FALSE, outcome |-> NoOutcome]
        ELSE ComposeOf(data, None)

\* queryMutation.mutate(data) on a mutation that ran before: the pending run
\* is left to itself, the state of the mutation is reset and mutationFn
\* runs to its first suspension
MutateAgain(data) ==
    \E now \in Clock :
        LET run == StartOf(data, now)
        IN  /\ earlier' = IF pc \in Busy THEN Append(earlier, Current) ELSE earlier
            /\ pc' = run.sub.pc
            /\ signedData' = run.sub.signedData
            /\ toSign' = run.sub.toSign
            /\ request' = run.sub.request
            /\ tmpReq' = run.sub.tmpReq
            /\ warningTimeout' = run.sub.warningTimeout
            /\ proxyRes' = run.sub.proxyRes
            /\ hookCalls' = hookCalls \o run.hooks
            /\ proxyCalls' = proxyCalls \o run.calls
            /\ signal' = run.sub.signal
            /\ abortControllerRef' = IF run.controller
                                     THEN NewController(abortControllerRef)
                                     ELSE abortControllerRef
            /\ outcome' = run.outcome
            /\ UNCHANGED <<op, showLongRunningWarning>>

\* the form's onSubmit, by the hotkey's requestSubmit() while a submission
\* is pending, or by the hotkey or the Send button after one has ended
FormResubmit ==
    /\ pc \in Busy \cup Done /\ ~showSelectIdentity
    /\ pc \in Busy => Len(earlier) < MaxEarlier
    /\ Len(proxyCalls) < MaxCalls /\ Len(hookCalls) < MaxCalls
    /\ abortControllerRef.id < MaxControllers
    /\ UNCHANGED <<proxyVars, docVars>>
    /\ IF identityKnown(form)
       THEN /\ MutateAgain(form)
            /\ form' = formAfter(form, signedData')
            /\ UNCHANGED showSelectIdentity
       ELSE /\ showSelectIdentity' = TRUE
            /\ UNCHANGED <<op, form, pc, signedData, toSign, request, tmpReq,
                           warningTimeout, showLongRunningWarning, abortControllerRef,
                           signal, hookCalls, proxyCalls, proxyRes, outcome, earlier>>

\* IdentityDialog's onSubmit, the dialog having been opened by such a submit
IdentityDialogResubmit ==
    /\ pc \in Busy \cup Done /\ showSelectIdentity
    /\ pc \in Busy => Len(earlier) < MaxEarlier
    /\ Len(proxyCalls) < MaxCalls /\ Len(hookCalls) < MaxCalls
    /\ abortControllerRef.id < MaxControllers
    /\ UNCHANGED <<proxyVars, docVars>>
    /\ \E identity \in op.identities \cup {NO_IDENTITY}, rememberedIdentity \in BOOLEAN :
          /\ showSelectIdentity' = FALSE
          /\ MutateAgain([form EXCEPT !.identity = Some(identity)])
          /\ form' = formAfter(IF rememberedIdentity
                               THEN [form EXCEPT !.identity = Some(identity)]
                               ELSE form,
                               signedData')

\* what a superseded run leaves untouched: the mutation's state
EarlierLeaves ==
    /\ UNCHANGED <<proxyVars, docVars>>
    /\ UNCHANGED <<op, showSelectIdentity, pc, signedData, toSign, request, tmpReq,
                   warningTimeout, signal, proxyRes, outcome>>

\* the superseded runs without the k-th, which has ended
Ended(k) == SubSeq(earlier, 1, k - 1) \o SubSeq(earlier, k + 1, Len(earlier))

\* await hmacSha256Hex settles in a superseded run
EarlierSignatureSettles ==
    \E k \in DOMAIN earlier :
        /\ earlier[k].pc = "signing"
        /\ LET e == earlier[k]
               signature == hmacSha256Hex(trim(e.signedData.apiSecret), e.toSign.v)
               data == [e.signedData EXCEPT
                          !.queryParams = upsertActiveParam(@, S_signature, signature)]
               run == ComposeOf(data, e.toSign)
           IN  /\ earlier' = [earlier EXCEPT ![k] = run.sub]
               /\ form' = formAfter(form, data)
               /\ hookCalls' = hookCalls \o run.hooks
               /\ proxyCalls' = proxyCalls \o run.calls
               /\ abortControllerRef' = NewController(abortControllerRef)
        /\ EarlierLeaves
        /\ UNCHANGED showLongRunningWarning

\* await authorizeRequest(tmpReq) settles in a superseded run
EarlierHookSettles ==
    \E k \in DOMAIN earlier :
        /\ earlier[k].pc = "authorizing"
        /\ EarlierLeaves
        /\ UNCHANGED form
        /\ UNCHANGED <<abortControllerRef, hookCalls>>
        /\ LET e == earlier[k]
           IN  \/ /\ hookFound(e.signedData)
                  /\ earlier' = Ended(k)
                  /\ showLongRunningWarning' = FALSE
                  /\ UNCHANGED proxyCalls
               \/ /\ \E t \in IF hookFound(e.signedData)
                              THEN {e.tmpReq, HeadersSet(e.tmpReq, S_authorization, <<"t">>)}
                              ELSE {e.tmpReq} :
                        /\ earlier' = [earlier EXCEPT
                                          ![k] = [e EXCEPT
                                                    !.pc = "proxy", !.tmpReq = t,
                                                    !.request.headers = t,
                                                    !.signal = Bind(@.own,
                                                                    abortControllerRef)]]
                        /\ proxyCalls' =
                               Append(proxyCalls,
                                      envelope(op.method, createUrl(e.signedData), t,
                                               e.request.body))
                  /\ UNCHANGED showLongRunningWarning

\* await fetch(proxyUrl) settles in a superseded run
EarlierProxyFetchSettles ==
    \E k \in DOMAIN earlier :
        /\ earlier[k].pc = "proxy"
        /\ EarlierLeaves
        /\ UNCHANGED form
        /\ UNCHANGED <<abortControllerRef, hookCalls, proxyCalls>>
        /\ showLongRunningWarning' = FALSE
        /\ IF earlier[k].signal.aborted
           THEN earlier' = Ended(k)
           ELSE \/ earlier' = Ended(k)
                \/ \E res \in ProxyResponses :
                      earlier' = [earlier EXCEPT
                                    ![k] = [@ EXCEPT !.pc = "reading", !.proxyRes = res,
                                                     !.warningTimeout = "cleared"]]

\* await proxyRes.text() / proxyRes.json() settles in a superseded run: its
\* error or result is reported to nobody
EarlierProxyBodySettles ==
    \E k \in DOMAIN earlier :
        /\ earlier[k].pc = "reading"
        /\ EarlierLeaves
        /\ UNCHANGED form
        /\ UNCHANGED <<abortControllerRef, hookCalls, proxyCalls>>
        /\ earlier' = Ended(k)
        /\ \/ /\ earlier[k].signal.aborted
              /\ showLongRunningWarning' = FALSE
           \/ showLongRunningWarning' =
                 IF earlier[k].proxyRes.ok THEN showLongRunningWarning ELSE FALSE

\* the warning timer of a superseded run fires
EarlierWarningFires ==
    \E k \in DOMAIN earlier :
        /\ earlier[k].warningTimeout = "armed"
        /\ earlier' = [earlier EXCEPT ![k] = [@ EXCEPT !.warningTimeout = "fired"]]
        /\ showLongRunningWarning' = TRUE
        /\ EarlierLeaves
        /\ UNCHANGED form
        /\ UNCHANGED <<abortControllerRef, hookCalls, proxyCalls>>

RepeatNext ==
    \/ PgNext
    \/ FormResubmit
    \/ IdentityDialogResubmit
    \/ EarlierSignatureSettles
    \/ EarlierHookSettles
    \/ EarlierProxyFetchSettles
    \/ EarlierProxyBodySettles
    \/ EarlierWarningFires

(***************************************************************************)
(* Initial states and specifications.                                      *)
(***************************************************************************)
\* the playground's variables before a submission
PgFresh ==
    /\ showSelectIdentity = FALSE
    /\ signedData = NoData
    /\ toSign = None
    /\ request = NoRequest
    /\ tmpReq = <<>>
    /\ warningTimeout = "none"
    /\ showLongRunningWarning = FALSE
    /\ abortControllerRef = NoController
    /\ signal = NoSignal
    /\ hookCalls = <<>>
    /\ proxyCalls = <<>>
    /\ proxyRes = NoProxyRes
    /\ outcome = NoOutcome
    /\ earlier = <<>>

BaseOp == [method |-> S_post, isSigned |-> TRUE, identities |-> {}]
BaseForm ==
    [apiSecret |-> <<"s">>, body |-> <<>>, bodyMode |-> "text", file |-> None,
     multipartFormFields |-> <<>>,
     queryParams |-> <<[name |-> S_symbol, value |-> <<"1">>, active |-> TRUE]>>,
     headers |-> <<[name |-> S_APIKEY, value |-> <<"k">>, active |-> TRUE]>>,
     identity |-> Some(NO_IDENTITY)]

\* no playground: the forwarder serves another client
PgOff == op = BaseOp /\ form = NoData /\ pc = "off" /\ PgFresh

\* the forms a user may have filled in
Secrets == {<<>>, <<" ">>, <<"s">>, <<"x">>}
FormHeaderEntries ==
    {[name |-> S_APIKEY, value |-> v, active |-> TRUE] : v \in {<<>>, <<" ">>, <<"k">>}}
    \cup {[name |-> S_APIKEY, value |-> <<"k">>, active |-> FALSE]}
    \cup {[name |-> S_ContentType, value |-> S_appJson, active |-> TRUE],
          [name |-> S_contentType, value |-> <<"j">>, active |-> TRUE]}
FormHeaderLists == UNION {[1..n -> FormHeaderEntries] : n \in 0..MaxHeaders}
ParamNames == {<<>>, S_symbol, S_timestamp, S_signature, <<"7">>}
ParamEntries ==
    {[name |-> n, value |-> <<"1">>, active |-> TRUE] : n \in ParamNames}
    \cup {[name |-> n, value |-> <<"2">>, active |-> TRUE] : n \in {S_symbol, <<"7">>}}
    \cup {[name |-> n, value |-> <<"2">>, active |-> FALSE] :
             n \in {S_symbol, S_timestamp, S_signature}}
ParamLists == UNION {[1..n -> ParamEntries] : n \in 0..MaxParams}
PgMethods == {S_get, S_Head, S_post}
BodyTexts == {<<>>, <<"b">>, <<"{","a",":","1","}">>}
\* the body texts of a signed submission: none, a primitive, an object, an
\* object between spaces, an empty object, an array, and two invalid texts
SignedBodyTexts ==
    BodyTexts \cup {<<" ","{","a",":","1","}"," ">>, <<"{","}">>, <<"[","]">>,
                    <<"{","a","}">>, <<"{","a",":","1">>}
Files == {None, Some(<<"f">>), Some(UntypedFile)}
FieldLists == {<<>>, <<[name |-> <<"a">>, value |-> <<"1">>, active |-> TRUE]>>}
\* the body of a form: its mode, its text, its file and its fields, the
\* text varying in text mode, the file in file mode and the fields in
\* multipart mode
FormBodies ==
    {<<"text", b, None, <<>> >> : b \in BodyTexts}
    \cup {<<"file", <<"b">>, f, <<>> >> : f \in Files}
    \cup {<<"multipart", <<"b">>, None, fl>> : fl \in FieldLists}

IdentityChoices ==
    {<<{}, NoneS>>, <<{}, Some(NO_IDENTITY)>>, <<{"id1"}, NoneS>>,
     <<{"id1"}, Some(NO_IDENTITY)>>, <<{"id1"}, Some("id1")>>}

\* the header lists of a form that sends a body: the API key alone, or with
\* a Content-Type of the user before or after it
TypedHeaderLists ==
    LET key == [name |-> S_APIKEY, value |-> <<"k">>, active |-> TRUE]
        type == [name |-> S_ContentType, value |-> S_appJson, active |-> TRUE]
    IN  {<<key>>, <<key, type>>, <<type, key>>}

\* the operation and form of a playground: the secret and the headers vary,
\* or the query params vary, or the method, the body and the identity vary,
\* or the body text and its mode vary, or the body mode, the Content-Type
\* header and the identity vary
PgInputs ==
    {<<[BaseOp EXCEPT !.isSigned = sg], [BaseForm EXCEPT !.apiSecret = sec, !.headers = h]>> :
        sg \in BOOLEAN, sec \in Secrets, h \in FormHeaderLists}
    \cup {<<[BaseOp EXCEPT !.isSigned = sg], [BaseForm EXCEPT !.queryParams = q]>> :
        sg \in BOOLEAN, q \in ParamLists}
    \cup {<<[method |-> m, isSigned |-> sg, identities |-> idc[1]],
            [BaseForm EXCEPT !.bodyMode = bd[1], !.body = bd[2], !.file = bd[3],
                             !.multipartFormFields = bd[4], !.identity = idc[2]]>> :
        m \in PgMethods, sg \in BOOLEAN, bd \in FormBodies, idc \in IdentityChoices}
    \cup {<<[BaseOp EXCEPT !.isSigned = sg], [BaseForm EXCEPT !.bodyMode = bm, !.body = b]>> :
        sg \in BOOLEAN, bm \in {"text", "file", "multipart"}, b \in SignedBodyTexts}
    \cup {<<[method |-> S_post, isSigned |-> sg, identities |-> idc[1]],
            [BaseForm EXCEPT !.headers = h, !.bodyMode = bm, !.body = <<"b">>,
                             !.file = Some(<<"f">>),
                             !.multipartFormFields =
                                 <<[name |-> <<"a">>, value |-> <<"1">>, active |-> TRUE]>>,
                             !.identity = idc[2]]>> :
        sg \in BOOLEAN, h \in TypedHeaderLists, bm \in {"text", "file", "multipart"},
        idc \in IdentityChoices}

ProxyOff ==
    /\ ppc = "idle"
    /\ raw = [kind |-> "empty", payload |-> EmptyPayload]
    /\ fetchCalls = <<>>
    /\ upstream = NoUpstream
    /\ thrown = NoThrow
    /\ responses = <<>>

\* no documentation page: the playground stands for itself
NoExtension == [type |-> "undefined", b |-> FALSE, n |-> 0, s |-> <<>>]
NoView == [rendered |-> FALSE, isSigned |-> FALSE]
DocsOff == operation = NoExtension /\ view = NoView

Init ==
    /\ \E input \in PgInputs : op = input[1] /\ form = input[2]
    /\ pc = "idle"
    /\ PgFresh
    /\ ProxyOff
    /\ DocsOff

Next == PgNext

\* a playground instance and one submission of its form
Spec == Init /\ [][Next]_vars

\* the forwarder and one POST of any client
ProxyInit ==
    /\ ppc = "readJson"
    /\ raw \in RawRequests
    /\ fetchCalls = <<>>
    /\ upstream = NoUpstream
    /\ thrown = NoThrow
    /\ responses = <<>>
    /\ PgOff
    /\ DocsOff

SpecProxy == ProxyInit /\ [][ProxyNext]_vars


\* a playground instance and the submissions of its form, one after or
\* during the other
RepeatInputs ==
    {<<[method |-> S_post, isSigned |-> sg, identities |-> idc[1]],
       [BaseForm EXCEPT !.apiSecret = sec, !.body = <<"b">>, !.identity = idc[2]]>> :
        sg \in BOOLEAN, sec \in {<<>>, <<"s">>}, idc \in IdentityChoices}

RepeatInit ==
    /\ \E input \in RepeatInputs : op = input[1] /\ form = input[2]
    /\ pc = "idle"
    /\ PgFresh
    /\ ProxyOff
    /\ DocsOff

SpecRepeat == RepeatInit /\ [][RepeatNext]_vars

\* either of the two
InitAll == Init \/ ProxyInit
NextAll == PgNext \/ ProxyNext
SpecAll == InitAll /\ [][NextAll]_vars

(***************************************************************************)
(* The documentation page: the operation view and the playground that is   *)
(* opened from it.                                                         *)
(***************************************************************************)
S_true == <<"t","r","u","e">>
S_one == <<"1">>
S_yes == <<"y","e","s">>
S_y == <<"y">>

\* a boolean, a number, a string, or a value of another type
Bool(b) == [type |-> "boolean", b |-> b, n |-> 0, s |-> <<>>]
Num(n) == [type |-> "number", b |-> FALSE, n |-> n, s |-> <<>>]
Str(s) == [type |-> "string", b |-> FALSE, n |-> 0, s |-> s]
Other(type) == [type |-> type, b |-> FALSE, n |-> 0, s |-> <<>>]

\* isTruthy of the operation view
isTruthy(value) ==
    IF value.type = "boolean" THEN value.b
    ELSE IF value.type = "string"
    THEN toLowerCase(trim(value.s)) \in {S_true, S_one, S_yes}
    ELSE IF value.type = "number" THEN value.n # 0
    ELSE FALSE

\* isTruthyExtension of the playground's wrapper
isTruthyExtension(v) ==
    IF v.type = "boolean" THEN v.b
    ELSE IF v.type = "number" THEN v.n = 1
    ELSE IF v.type = "string"
    THEN toLowerCase(trim(v.s)) \in {S_true, S_one, S_yes, S_y}
    ELSE FALSE

\* the values that an x-signed extension may have
ExtensionValues ==
    {Bool(TRUE), Bool(FALSE), Num(0), Num(1), Num(2), Num(-1),
     Str(S_true), Str(<<"T","R","U","E">>), Str(<<" ","Y","e","s"," ">>), Str(S_one),
     Str(S_y), Str(<<" ","Y"," ">>), Str(<<"0">>), Str(<<"n","o">>), Str(<<>>),
     Str(<<"f","a","l","s","e">>), Other("undefined"), Other("null"), Other("object")}

\* OperationListItem renders the operation: its badge and notice follow
\* isSigned
OperationListItem ==
    /\ ~view.rendered
    /\ view' = [rendered |-> TRUE, isSigned |-> isTruthy(operation)]
    /\ UNCHANGED <<proxyVars, pgVars, operation>>

\* PlaygroundDialogWrapper opens the playground of the operation with its
\* isSigned
PlaygroundDialogWrapper ==
    /\ pc = "off"
    /\ pc' = "idle"
    /\ \E input \in RepeatInputs :
          /\ op' = [input[1] EXCEPT !.isSigned = isTruthyExtension(operation)]
          /\ form' = input[2]
    /\ UNCHANGED <<proxyVars, docVars>>
    /\ UNCHANGED <<showSelectIdentity, signedData, toSign, request, tmpReq,
                   warningTimeout, showLongRunningWarning, abortControllerRef, signal,
                   hookCalls, proxyCalls, proxyRes, outcome, earlier>>

\* a documentation page with one operation, whose playground is opened and
\* submitted once
DocsInit ==
    /\ operation \in ExtensionValues
    /\ view = NoView
    /\ PgOff
    /\ ProxyOff

DocsNext == OperationListItem \/ PlaygroundDialogWrapper \/ PgNext

SpecDocs == DocsInit /\ [][DocsNext]_vars

(***************************************************************************)
(* Properties of the proxy forwarder.                                      *)
(***************************************************************************)
payload == raw.payload
HasPayload == raw.kind = "json"
Answer == responses[1]
Rejected(msg) ==
    /\ Len(responses) = 1
    /\ Answer.status = 400
    /\ Answer.text = msg
UrlParses == Truthy(payload.url) /\ ParseURL(payload.url.v).ok
NonHttps == UrlParses /\ ParseURL(payload.url.v).protocol # <<"h","t","t","p","s",":">>

\* C1 as stated: every payload whose url parses with a scheme other than
\* https is answered 400 "Only https URLs are allowed", and no upstream
\* fetch is started for it.
C1_Original ==
    (HasPayload /\ NonHttps) =>
        /\ fetchCalls = <<>>
        /\ ppc = "done" => Rejected(MsgOnlyHttps)

\* C1 amended: every payload whose url parses with a scheme other than
\* https is answered 400 and no upstream fetch is started for it; the
\* message is "Only https URLs are allowed" when the payload has a method,
\* and the invalid-payload message when it has none.
C1_NonHttpsRejected ==
    (HasPayload /\ NonHttps) =>
        /\ fetchCalls = <<>>
        /\ ppc # "done" => responses = <<>>
        /\ ppc = "done" =>
              Rejected(IF Truthy(payload.method) THEN MsgOnlyHttps ELSE MsgInvalidPayload)

C1_Witness ==
    /\ HasPayload /\ ppc = "done"
    /\ payload.url = Some(U_http) /\ payload.method = Some(GET)
    /\ Rejected(MsgOnlyHttps) /\ fetchCalls = <<>>

Supplied == IF payload.headers.has THEN payload.headers.v ELSE <<>>
Forwarded == fetchCalls[1].headers
IsHopByHop(k) ==
    toLowerCase(k) \in {<<"h","o","s","t">>,
                        <<"c","o","n","n","e","c","t","i","o","n">>,
                        <<"c","o","n","t","e","n","t","-","l","e","n","g","t","h">>}
KeptPairs == SelectSeq(Supplied, LAMBDA p : ~IsHopByHop(p[1]))

\* C2 as stated: the forwarded header set holds no host, connection or
\* content-length header and holds every other supplied pair unchanged,
\* none dropped or merged, also for an empty name or a repeated name.
C2_Original ==
    fetchCalls # <<>> =>
        /\ \A i \in DOMAIN Forwarded : ~IsHopByHop(Forwarded[i][1])
        /\ Forwarded = KeptPairs

LastValue(k) ==
    Supplied[CHOOSE i \in DOMAIN Supplied :
                /\ Supplied[i][1] = k
                /\ \A j \in DOMAIN Supplied : Supplied[j][1] = k => j <= i][2]

\* C2 amended: the forwarded header set holds no host, connection or
\* content-length header (under any letter case) and no header with an
\* empty name; every other supplied name is forwarded exactly once, under
\* the same name, with the value of the last supplied pair of that name;
\* nothing else is forwarded.
C2_HeadersForwarded ==
    fetchCalls # <<>> =>
        /\ \A i \in DOMAIN Forwarded :
              /\ ~IsHopByHop(Forwarded[i][1])
              /\ Forwarded[i][1] # <<>>
              /\ \E j \in DOMAIN Supplied : Supplied[j][1] = Forwarded[i][1]
              /\ Forwarded[i][2] = LastValue(Forwarded[i][1])
              /\ \A j \in DOMAIN Forwarded : Forwarded[j][1] = Forwarded[i][1] => j = i
        /\ \A j \in DOMAIN Supplied :
              (Supplied[j][1] # <<>> /\ ~IsHopByHop(Supplied[j][1])) =>
                  \E i \in DOMAIN Forwarded : Forwarded[i][1] = Supplied[j][1]

C2_Witness ==
    /\ fetchCalls # <<>>
    /\ Supplied = << <<S_Accept, <<"1">> >>, <<S_Accept, <<"2">> >> >>
    /\ Forwarded = << <<S_Accept, <<"2">> >> >>

\* C4: the checks are made in a fixed order and the first failing one
\* decides the answer: url or method missing, then url not parseable, then
\* scheme not https; none of the three rejections starts an upstream call.
C4_ValidationOrder ==
    (raw.kind \in {"json", "empty"} /\ ppc = "done") =>
        /\ (~Truthy(payload.url) \/ ~Truthy(payload.method)) =>
              (Rejected(MsgInvalidPayload) /\ fetchCalls = <<>>)
        /\ (Truthy(payload.url) /\ Truthy(payload.method) /\ ~UrlParses) =>
              (Rejected(MsgInvalidURL) /\ fetchCalls = <<>>)
        /\ (Truthy(payload.method) /\ NonHttps) =>
              (Rejected(MsgOnlyHttps) /\ fetchCalls = <<>>)
        /\ (Len(responses) = 1 /\ Answer.status = 400) => fetchCalls = <<>>

C4_Witness ==
    /\ HasPayload /\ ppc = "done"
    /\ payload.url = Some(U_noscheme) /\ ~payload.method.has
    /\ Rejected(MsgInvalidPayload)

\* C5: a POST is answered at most once while it is handled and exactly once
\* when the handler has finished, with status 200, 400 or 500; an exception
\* raised while handling it gives a 500 text/plain answer carrying the
\* error's message, never no answer and never a 200.
C5_AnsweredOnce ==
    /\ Len(responses) <= 1
    /\ ppc = "done" => (Len(responses) = 1 /\ Answer.status \in {200, 400, 500})
    /\ ppc # "done" => responses = <<>>
    /\ thrown.raised =>
          /\ ppc = "done"
          /\ Len(responses) = 1
          /\ Answer.status = 500
          /\ Answer.type = "text/plain"
          /\ Answer.text = IF thrown.err.has THEN thrown.err.v ELSE "Proxy error"

C5_Witness ==
    /\ raw.kind = "malformed" /\ thrown.raised /\ ppc = "done"
    /\ Len(responses) = 1 /\ Answer.status = 500

\* C6: when the upstream call has returned a response and its text, whatever
\* the upstream status, the answer is 200 with a payload whose status is the
\* upstream status, whose body is the upstream text, whose size is the
\* length of that body and whose contentType is the upstream content-type
\* header, or empty when there is none.
C6_UpstreamMirrored ==
    (ppc = "done" /\ upstream.text.has) =>
        /\ Len(responses) = 1
        /\ Answer.status = 200
        /\ Answer.json.status = upstream.status
        /\ Answer.json.body = upstream.text.v
        /\ Answer.json.size = Len(upstream.text.v)
        /\ Answer.json.headers = upstream.headers
        /\ \/ \E i \in DOMAIN upstream.headers :
                 /\ upstream.headers[i][1] = <<"c","o","n","t","e","n","t","-","t","y","p","e">>
                 /\ Answer.json.contentType = upstream.headers[i][2]
           \/ /\ \A i \in DOMAIN upstream.headers :
                    upstream.headers[i][1] # <<"c","o","n","t","e","n","t","-","t","y","p","e">>
              /\ Answer.json.contentType = <<>>

C6_Witness ==
    /\ ppc = "done" /\ upstream.text = Some(<<"{","a","}">>)
    /\ upstream.status = 404
    /\ Answer.status = 200 /\ Answer.json.status = 404
    /\ Answer.json.size = 3 /\ Answer.json.contentType = <<>>


(***************************************************************************)
(* Properties of the submission.                                           *)
(***************************************************************************)
Submitted == pc \notin {"idle", "off"}
Composed == request # NoRequest
IsGetOrHead(m) == toUpperCase(m) = <<"G","E","T">> \/ toUpperCase(m) = <<"H","E","A","D">>

\* C3: for a method that is GET or HEAD under any letter case no body is
\* forwarded: the envelope the playground POSTs has no body, whatever the
\* body mode, text, file and fields are, and the forwarder's upstream call
\* has no body, whatever body the payload carried.
C3_NoBodyForGetHead ==
    /\ \A i \in DOMAIN proxyCalls :
          IsGetOrHead(op.method) => ~proxyCalls[i].body.has
    /\ (Composed /\ IsGetOrHead(op.method)) => request.body.kind = "undefined"
    /\ \A i \in DOMAIN fetchCalls :
          IsGetOrHead(payload.method.v) => ~fetchCalls[i].body.has

C3_Witness ==
    /\ op.method = S_Head
    /\ form.bodyMode = "text" /\ form.body = <<"b">>
    /\ Len(proxyCalls) = 1 /\ ~proxyCalls[1].body.has

SecretGiven == trim(signedData.apiSecret) # <<>>
NoKeyEntry ==
    \A i \in DOMAIN signedData.headers :
        ~(/\ signedData.headers[i].name = S_APIKEY
          /\ signedData.headers[i].active
          /\ trim(signedData.headers[i].value) # <<>>)
Untouched ==
    /\ warningTimeout = "none"
    /\ ~abortControllerRef.created
    /\ hookCalls = <<>>
    /\ proxyCalls = <<>>
    /\ toSign = None

\* C7: a signed submission checks the secret first and the API-key header
\* second: with an empty trimmed secret it fails with the API Secret message
\* also when the API-key header is missing too, with a secret but no active
\* non-empty API-key header it fails with the API-key message, and in both
\* cases it ends before the timer is armed, the hook invoked or a proxy call
\* dispatched.
C7_PreconditionOrder ==
    (op.isSigned /\ Submitted) =>
        /\ ~SecretGiven => (pc = "failed" /\ outcome = Failed(MsgSecret) /\ Untouched)
        /\ (SecretGiven /\ NoKeyEntry) =>
              (pc = "failed" /\ outcome = Failed(MsgApiKey) /\ Untouched)
        /\ outcome.message \in {MsgSecret, MsgApiKey} => (pc = "failed" /\ Untouched)

C7_Witness ==
    /\ op.isSigned /\ pc = "failed"
    /\ signedData.apiSecret = <<" ">> /\ signedData.headers = <<>>
    /\ outcome = Failed(MsgSecret) /\ Untouched

\* C8: the API-key check of a signed submission passes exactly when some
\* active header named as the designated API-key header has a non-empty
\* trimmed value, for every header sequence.
C8_ApiKeyCheck ==
    (op.isSigned /\ Submitted /\ SecretGiven) =>
        (outcome.message # MsgApiKey <=> ~NoKeyEntry)

FormActive == SelectSeq(form.queryParams, LAMBDA x : x.active)
FormActivePairs == [i \in DOMAIN FormActive |-> <<FormActive[i].name, FormActive[i].value>>]
Outgoing == request.finalUrl.query
Names(pairs) == {pairs[i][1] : i \in DOMAIN pairs}

\* C9: for a signed submission that passed both checks, from a form whose
\* query params hold no timestamp and no signature entry, the outgoing query
\* parameters are the form's active ones in their order, then timestamp,
\* then signature, and nothing else.
C9_SignedParams ==
    (/\ op.isSigned /\ Composed
     /\ \A i \in DOMAIN form.queryParams :
           form.queryParams[i].name \notin {S_timestamp, S_signature}) =>
        /\ Len(Outgoing) = Len(FormActivePairs) + 2
        /\ SubSeq(Outgoing, 1, Len(FormActivePairs)) = FormActivePairs
        /\ Outgoing[Len(Outgoing) - 1][1] = S_timestamp
        /\ Outgoing[Len(Outgoing) - 1][2] \in Clock
        /\ Outgoing[Len(Outgoing)][1] = S_signature
        /\ Outgoing[Len(Outgoing)][2] # <<>>
        /\ \A i \in DOMAIN proxyCalls : proxyCalls[i].url.query = Outgoing

C9_Witness ==
    /\ op.isSigned /\ Len(proxyCalls) = 1
    /\ form.queryParams = <<[name |-> S_symbol, value |-> <<"1">>, active |-> TRUE]>>
    /\ Len(proxyCalls[1].url.query) = 3
    /\ proxyCalls[1].url.query[1] = <<S_symbol, <<"1">> >>
    /\ proxyCalls[1].url.query[2] = <<S_timestamp, <<"9">> >>
    /\ proxyCalls[1].url.query[3][1] = S_signature

\* C10 as stated: the outgoing query parameters of a submission that
\* reaches the proxy call hold a timestamp and a signature entry when the
\* operation is signed, and neither of them when it is not, whatever the
\* user's query params are.
C10_Original ==
    \A i \in DOMAIN proxyCalls :
        /\ op.isSigned => {S_timestamp, S_signature} \subseteq Names(proxyCalls[i].url.query)
        /\ ~op.isSigned => Names(proxyCalls[i].url.query) \cap {S_timestamp, S_signature} = {}

\* C10 amended: the outgoing query parameters of a submission that reaches
\* the proxy call hold a timestamp and a signature entry when the operation
\* is signed; when it is not signed they are exactly the form's active query
\* params, so a timestamp or signature is sent only if the user's own active
\* params hold one.
C10_SignedIffInjected ==
    \A i \in DOMAIN proxyCalls :
        /\ op.isSigned => {S_timestamp, S_signature} \subseteq Names(proxyCalls[i].url.query)
        /\ ~op.isSigned => proxyCalls[i].url.query = FormActivePairs

C10_Witness ==
    /\ ~op.isSigned /\ Len(proxyCalls) = 1
    /\ \E i \in DOMAIN form.queryParams :
          form.queryParams[i].name = S_timestamp /\ form.queryParams[i].active
    /\ S_timestamp \in Names(proxyCalls[1].url.query)

Signatures == SelectSeq(signedData.queryParams, LAMBDA x : x.name = S_signature)
Signature == hmacSha256Hex(trim(signedData.apiSecret), toSign.v)

\* C11: after the signature upsert of a signed submission the query
\* parameter sequence holds exactly one entry named signature, which is
\* active and holds the new signature, whatever number of signature entries
\* the form held; the entry stands where the form's first signature entry
\* stood, and is the last one when the form had none.
C11_SignatureUpsert ==
    (op.isSigned /\ Composed) =>
        /\ Len(Signatures) = 1
        /\ Signatures[1].active
        /\ Signatures[1].value = Signature
        /\ LET at == FirstIndex(form.queryParams, S_signature)
           IN  IF at = 0
               THEN signedData.queryParams[Len(signedData.queryParams)].name = S_signature
               ELSE signedData.queryParams[at].name = S_signature

\* the texts of the model that are a JSON object, and what they serialise to
ObjectTexts == {<<"{","}">>, <<"{","a",":","1","}">>}
BodySigned == signedData.bodyMode = "text" /\ trim(signedData.body) \in ObjectTexts
BodySerial == IF trim(signedData.body) = <<"{","a",":","1","}">> THEN <<"a","=","1">> ELSE <<>>

Pair(name, value) == name \o <<"=">> \o encodeURIComponent(value)

\* the query params that are signed: active, named, not named signature
SignedNamed ==
    SelectSeq(signedData.queryParams,
              LAMBDA x : x.active /\ x.name # <<>> /\ x.name # S_signature)

\* C12 as stated: the query component of the signed string lists the
\* active, named query params other than signature in their sequence order,
\* and its last pair is the fresh timestamp, whatever the form's query
\* params are.
C12_Original ==
    (op.isSigned /\ toSign.has /\ ~BodySigned) =>
        /\ toSign.v = JoinAmp([i \in DOMAIN SignedNamed |->
                                  Pair(SignedNamed[i].name, SignedNamed[i].value)])
        /\ SignedNamed[Len(SignedNamed)].name = S_timestamp
        /\ SignedNamed[Len(SignedNamed)].value \in Clock

RECURSIVE FirstNames(_, _)
FirstNames(es, seen) ==
    IF es = <<>> THEN <<>>
    ELSE IF Head(es).name \in seen THEN FirstNames(Tail(es), seen)
    ELSE <<Head(es).name>> \o FirstNames(Tail(es), seen \cup {Head(es).name})

RECURSIVE Ascending(_)
Ascending(names) ==
    IF names = {} THEN <<>>
    ELSE LET least == CHOOSE n \in names :
                          \A m \in names : IndexValue(n) <= IndexValue(m)
         IN  <<least>> \o Ascending(names \ {least})

\* the names that are signed: the integer-like ones in ascending order, then
\* the others in the order of their first active entry
CanonNames ==
    LET names == FirstNames(SignedNamed, {})
    IN  Ascending({names[i] : i \in {j \in DOMAIN names : IsArrayIndex(names[j])}})
        \o SelectSeq(names, LAMBDA n : ~IsArrayIndex(n))

LastValueOf(n) ==
    LET last == CHOOSE i \in DOMAIN SignedNamed :
                    /\ SignedNamed[i].name = n
                    /\ \A j \in DOMAIN SignedNamed : SignedNamed[j].name = n => j <= i
    IN  SignedNamed[last].value

\* C12 amended: the query component of the signed string never includes a
\* signature entry and holds one pair for each name of the active, named
\* query params after the timestamp upsert: a repeated name stands where
\* its first active entry stands, with the value of its last active entry,
\* and integer-like names come first in ascending order. The fresh timestamp
\* is the last pair when the form holds no timestamp entry; a timestamp
\* entry of the form is refreshed and made active where it stands.
C12_SignedQuery ==
    (op.isSigned /\ toSign.has /\ ~BodySigned) =>
        /\ toSign.v = JoinAmp([i \in DOMAIN CanonNames |->
                                  Pair(CanonNames[i], LastValueOf(CanonNames[i]))])
        /\ S_signature \notin {CanonNames[i] : i \in DOMAIN CanonNames}
        /\ FirstIndex(form.queryParams, S_timestamp) = 0 =>
              /\ CanonNames[Len(CanonNames)] = S_timestamp
              /\ LastValueOf(S_timestamp) \in Clock
        /\ FirstIndex(form.queryParams, S_timestamp) # 0 =>
              /\ signedData.queryParams[FirstIndex(form.queryParams, S_timestamp)]
                     \in {[name |-> S_timestamp, value |-> now, active |-> TRUE] : now \in Clock}
              /\ Len(SelectSeq(signedData.queryParams, LAMBDA x : x.name = S_timestamp))
                     = Len(SelectSeq(form.queryParams, LAMBDA x : x.name = S_timestamp))

C12_Witness ==
    /\ op.isSigned /\ toSign.has
    /\ form.queryParams = <<[name |-> S_timestamp, value |-> <<"2">>, active |-> FALSE],
                            [name |-> S_symbol, value |-> <<"1">>, active |-> TRUE]>>
    /\ toSign.v = Pair(S_timestamp, <<"9">>) \o <<"&">> \o Pair(S_symbol, <<"1">>)

\* the query component, as C12 describes it
QueryComponent ==
    JoinAmp([i \in DOMAIN CanonNames |-> Pair(CanonNames[i], LastValueOf(CanonNames[i]))])

\* C13: the signed string is the query component followed by "&" and the
\* serialised body exactly when bodyMode is text and the trimmed body text
\* is a JSON object with an entry to serialise; in file or multipart mode,
\* with an empty body, an array, a primitive or an invalid text, and for an
\* object that serialises to nothing, it is the query component alone. It
\* never starts or ends with "&".
C13_BodyComponent ==
    (op.isSigned /\ toSign.has) =>
        /\ toSign.v = IF BodySigned /\ BodySerial # <<>>
                      THEN QueryComponent \o <<"&">> \o BodySerial
                      ELSE QueryComponent
        /\ toSign.v # <<>>
        /\ Head(toSign.v) # "&" /\ toSign.v[Len(toSign.v)] # "&"

C13_Witness ==
    /\ op.isSigned /\ toSign.has
    /\ form.bodyMode = "text" /\ form.body = <<" ","{","a",":","1","}"," ">>
    /\ toSign.v = Pair(S_symbol, <<"1">>) \o <<"&">> \o Pair(S_timestamp, <<"9">>)
                  \o <<"&">> \o <<"a","=","1">>

\* a query with the values of its signature parameters blanked
Redact(query) ==
    [i \in DOMAIN query |->
        IF query[i][1] = S_signature THEN <<S_signature, <<"*">> >> ELSE query[i]]

\* the data of the submission with another secret
Submission(secret) ==
    [signedData EXCEPT !.queryParams = form.queryParams, !.apiSecret = secret]

\* the data that the same submission composes its request from when it is
\* made with another secret
ComposedFrom(secret) ==
    LET data == Submission(secret)
        now == CHOOSE t \in Clock : TRUE
    IN  IF op.isSigned
        THEN [data EXCEPT !.queryParams =
                 upsertActiveParam(withTimestamp(data, now), S_signature,
                                   hmacSha256Hex(trim(secret), toSignOf(data, now)))]
        ELSE data

\* the header lists the hook may leave
HookHeaders(data) ==
    LET h == tmpReqHeaders(hdrsForMode(data), requestBodyForSend(op.method, bodyOf(data)))
    IN  IF data.identity = Some(NO_IDENTITY) THEN {hdrsForMode(data)}
        ELSE {h, HeadersSet(h, S_authorization, <<"t">>)}

\* the secrets another submission of the same form may be made with
OtherSecrets == {sec \in Secrets \cup {<<"o">>} : op.isSigned => trim(sec) # <<>>}

\* C14: the proxy envelope and the result's request echo of a submission
\* are those of the same submission made with any other secret, but for the
\* value of the signature query parameter; the envelope has the four fields
\* method, url, headers and body, and the secret is no header name or
\* value, no query parameter name or value other than the signature's, and
\* not the body.
C14_SecretNotSent ==
    \A i \in DOMAIN proxyCalls : \A sec \in OtherSecrets :
        LET other == ComposedFrom(sec)
            call == proxyCalls[i]
            mine == trim(signedData.apiSecret)
        IN  /\ DOMAIN call = {"method", "url", "headers", "body"}
            /\ call.method = toUpperCase(op.method)
            /\ call.url.base = createUrl(other).base
            /\ Redact(call.url.query) = Redact(createUrl(other).query)
            /\ call.headers \in HookHeaders(other)
            /\ call.body = envelopeBody(requestBodyForSend(op.method, bodyOf(other)))
            /\ mine # <<>> =>
                  /\ \A h \in DOMAIN call.headers : mine \notin {call.headers[h][1], call.headers[h][2]}
                  /\ \A q \in DOMAIN call.url.query :
                        /\ call.url.query[q][1] # mine
                        /\ call.url.query[q][1] # S_signature => call.url.query[q][2] # mine
                  /\ call.body # Some(mine)
            /\ outcome.state = "success" =>
                  /\ outcome.result.request.method = call.method
                  /\ outcome.result.request.url = call.url
                  /\ outcome.result.request.headers =
                         << <<S_Host, HostOf(call.url.base)>>, <<S_UserAgent, S_Playground>> >>
                         \o call.headers
                  /\ outcome.result.request.body = requestBodyDebug(other)

C14_Witness ==
    /\ op.isSigned /\ outcome.state = "success" /\ Len(proxyCalls) = 1
    /\ form.apiSecret = <<"x">>
    /\ proxyCalls[1].url.query # createUrl(ComposedFrom(<<"s">>)).query
    /\ Redact(proxyCalls[1].url.query) = Redact(createUrl(ComposedFrom(<<"s">>)).query)

IsContentType(name) == toLowerCase(name) = toLowerCase(S_ContentType)
ContentTypesOf(headers) == SelectSeq(headers, LAMBDA h : IsContentType(h[1]))
UserContentTypes ==
    SelectSeq(signedData.headers, LAMBDA x : x.active /\ IsContentType(x.name))

\* C15: the header list of the proxy envelope has no Content-Type entry,
\* under any letter case, when bodyMode is file or multipart, whatever the
\* user's headers and the identity are; when bodyMode is text it has the
\* user's active Content-Type header with its value, and none when the
\* user set none.
C15_ContentType ==
    \A i \in DOMAIN proxyCalls :
        /\ signedData.bodyMode \in {"file", "multipart"} =>
              ContentTypesOf(proxyCalls[i].headers) = <<>>
        /\ (signedData.bodyMode = "text" /\ UserContentTypes = <<>>) =>
              ContentTypesOf(proxyCalls[i].headers) = <<>>
        /\ (signedData.bodyMode = "text" /\ Len(UserContentTypes) = 1) =>
              /\ Len(ContentTypesOf(proxyCalls[i].headers)) = 1
              /\ ContentTypesOf(proxyCalls[i].headers)[1][2] = trim(UserContentTypes[1].value)

ActiveFields ==
    SelectSeq(signedData.multipartFormFields, LAMBDA x : x.name # <<>> /\ x.active)

\* C16: for a method other than GET and HEAD the proxy envelope carries the
\* body of the selected mode: the text in text mode, and a body whenever a
\* file is selected in file mode or active named fields exist in multipart
\* mode.
C16_BodyEncoding ==
    \A i \in DOMAIN proxyCalls :
        ~IsGetOrHead(op.method) =>
            /\ (signedData.bodyMode = "text" /\ signedData.body # <<>>) =>
                  proxyCalls[i].body = Some(signedData.body)
            /\ (signedData.bodyMode = "file" /\ signedData.file.has) =>
                  proxyCalls[i].body.has
            /\ (signedData.bodyMode = "multipart" /\ ActiveFields # <<>>) =>
                  proxyCalls[i].body.has

ActiveHeaders == SelectSeq(signedData.headers, LAMBDA x : x.name # <<>> /\ x.active)
NoIdentity == signedData.identity = Some(NO_IDENTITY)

\* every pair of the outgoing query is an active entry of the form, or one
\* of the two parameters that a signed submission injects
QueryFromActive(query) ==
    \A q \in DOMAIN query :
        \/ \E j \in DOMAIN form.queryParams :
              /\ form.queryParams[j].active
              /\ query[q] = <<form.queryParams[j].name, form.queryParams[j].value>>
        \/ op.isSigned /\ query[q][1] \in {S_timestamp, S_signature}

\* C17 as stated: no inactive query parameter reaches the URL of the proxy
\* envelope, and with identity "none" the envelope's headers are exactly
\* the active, named header entries of the form, the letter case of a name
\* and the space around a value aside.
C17_Original ==
    \A i \in DOMAIN proxyCalls :
        /\ QueryFromActive(proxyCalls[i].url.query)
        /\ NoIdentity =>
              {proxyCalls[i].headers[h] : h \in DOMAIN proxyCalls[i].headers} =
                  {<<toLowerCase(ActiveHeaders[j].name), trim(ActiveHeaders[j].value)>> :
                      j \in DOMAIN ActiveHeaders}

RECURSIVE JoinComma(_)
JoinComma(values) ==
    IF Len(values) = 1 THEN values[1]
    ELSE values[1] \o <<",", " ">> \o JoinComma(Tail(values))

\* the trimmed values of the active header entries of a name, in any case
ActiveValues(lower) ==
    LET of == SelectSeq(ActiveHeaders, LAMBDA x : toLowerCase(x.name) = lower)
    IN  [j \in DOMAIN of |-> trim(of[j].value)]

\* the names the envelope may hold: those of the active entries, without
\* Content-Type in file and multipart mode
SentNames ==
    {toLowerCase(ActiveHeaders[j].name) : j \in DOMAIN ActiveHeaders}
    \ (IF signedData.bodyMode \in {"file", "multipart"} THEN {S_contentType} ELSE {})

\* C17 amended: no inactive header or query parameter entry contributes its
\* name or value to the proxy envelope, but for the first timestamp and
\* signature entry, which a signed submission makes active with a fresh
\* value. With identity "none" the envelope's headers are the active, named
\* header entries of the form as a Headers object lists them: one entry for
\* each name in lower case, in ascending order of the names, its value the
\* trimmed values of the active entries of that name joined by ", ", and
\* no Content-Type in file and multipart mode; with another identity they
\* hold no name but these, Content-Type and what the hook adds.
C17_InactiveNotSent ==
    \A i \in DOMAIN proxyCalls :
        LET sent == proxyCalls[i].headers
        IN  /\ QueryFromActive(proxyCalls[i].url.query)
            /\ NoIdentity =>
                  /\ {sent[h][1] : h \in DOMAIN sent} = SentNames
                  /\ \A h \in DOMAIN sent : sent[h][2] = JoinComma(ActiveValues(sent[h][1]))
                  /\ \A g, h \in DOMAIN sent : g < h => StrLess(sent[g][1], sent[h][1])
            /\ ~NoIdentity =>
                  \A h \in DOMAIN sent :
                      /\ sent[h][1] \in SentNames \cup {S_contentType, S_authorization}
                      /\ sent[h][1] \in SentNames \ {S_authorization} =>
                            sent[h][2] = JoinComma(ActiveValues(sent[h][1]))

C17_Witness ==
    /\ Len(proxyCalls) = 1 /\ NoIdentity
    /\ form.headers = <<[name |-> S_APIKEY, value |-> <<"k">>, active |-> FALSE],
                        [name |-> S_ContentType, value |-> S_appJson, active |-> TRUE]>>
    /\ proxyCalls[1].headers = << <<S_contentType, S_appJson>> >>

Started == pc \in {"signing", "authorizing", "proxy", "failed"}
NothingStarted ==
    /\ UNCHANGED <<pc, signedData, toSign, request, warningTimeout, abortControllerRef,
                   signal, hookCalls, proxyCalls, outcome>>

\* C18: a form submit with at least one identity and none chosen starts no
\* submission and opens the identity dialog, and from there a submission
\* starts only by the dialog's answer, with the identity it gives; a form
\* submit with no identity at all, or with a chosen one ("none" included),
\* starts a submission at once, with the form's identity.
C18_IdentityGate ==
    [][/\ (pc = "idle" /\ ~showSelectIdentity /\ op.identities # {} /\ ~form.identity.has) =>
             (showSelectIdentity' /\ NothingStarted)
       /\ (pc = "idle" /\ ~showSelectIdentity /\ (op.identities = {} \/ form.identity.has)) =>
             (Started' /\ ~showSelectIdentity' /\ signedData'.identity = form.identity)
       /\ (pc = "idle" /\ showSelectIdentity) =>
             \/ ~showSelectIdentity' /\ NothingStarted
             \/ /\ Started' /\ ~showSelectIdentity'
                /\ signedData'.identity.has
                /\ signedData'.identity.v \in op.identities \cup {NO_IDENTITY}]_vars

C18_Witness ==
    /\ pc = "proxy" /\ Len(proxyCalls) = 1
    /\ op.identities # {} /\ ~form.identity.has
    /\ signedData.identity = Some("id1")

HookIdentity ==
    /\ signedData.identity.has
    /\ signedData.identity.v \in op.identities \ {NO_IDENTITY}

\* C19: no proxy call is dispatched while the signature is computed or the
\* hook runs; at the proxy call of a signed operation the query params hold
\* the computed signature; the hook is invoked only for a selected identity
\* other than "none", once, and before the proxy call; with an identity
\* other than "none" the envelope's header list is the one left on the
\* provisional request; and a failure of the hook ends the submission as
\* failed without a proxy call.
C19_Ordering ==
    /\ pc \in {"signing", "authorizing"} => proxyCalls = <<>>
    /\ hookCalls # <<>> => (HookIdentity /\ hookCalls = <<signedData.identity.v>>)
    /\ outcome.message = "Unauthorized" => (pc = "failed" /\ proxyCalls = <<>>)
    /\ \A i \in DOMAIN proxyCalls :
          /\ op.isSigned =>
                /\ toSign.has
                /\ \E q \in DOMAIN signedData.queryParams :
                       /\ signedData.queryParams[q].name = S_signature
                       /\ signedData.queryParams[q].value = Signature
                       /\ signedData.queryParams[q].active
          /\ HookIdentity => hookCalls # <<>>
          /\ ~NoIdentity => proxyCalls[i].headers = tmpReq
          /\ NoIdentity => proxyCalls[i].headers = request.headers

C19_Witness ==
    /\ op.isSigned /\ Len(proxyCalls) = 1
    /\ hookCalls = <<"id1">>
    /\ proxyCalls[1].headers = tmpReq
    /\ \E h \in DOMAIN tmpReq : tmpReq[h] = <<S_authorization, <<"t">> >>
    /\ Signatures # <<>> /\ Signatures[1].value = Signature

\* the submissions of the instance that are pending
InFlight == (IF pc \in Busy THEN 1 ELSE 0) + Len(earlier)

\* C20: under every sequence of form submits, by the Send button, the
\* hotkey and the identity dialog, there is never a state in which two
\* submissions of the playground instance are pending.
C20_OneInFlight == InFlight <= 1

(***************************************************************************)
(* Properties of cancellation and of the long-running warning.             *)
(***************************************************************************)
\* the runs of mutationFn that have not ended: the superseded ones and the
\* one that the form shows
Runs == earlier \o (IF pc \in Busy THEN <<Current>> ELSE <<>>)

\* C21: the proxy call of every submission is bound to the abort handle
\* that this same submission created, never to the handle of a newer one,
\* and no proxy call of an older submission is left running on a handle
\* that the playground no longer holds and so cannot abort.
C21_HandleOwnership ==
    \A k \in DOMAIN Runs :
        Runs[k].pc = "proxy" =>
            /\ Runs[k].signal.id = Runs[k].signal.own
            /\ Runs[k].signal.aborted \/ Runs[k].signal.id = abortControllerRef.id

\* C22: at every moment at which a submission is pending before its proxy
\* call has answered (the signature being computed, the identity hook
\* running, the proxy call in flight) the playground holds an abort handle
\* of that submission, one that a user's abort then acts on.
C22_HandleWhilePending ==
    pc \in {"signing", "authorizing", "proxy"} =>
        /\ abortControllerRef.created
        /\ abortControllerRef.id = signal.own

\* what the user's two Cancel buttons give abort() as its reason
CancelReasons == {S_cancelledByUser, S_cancelledByTheUser}

\* C23: a submission that the user aborts does not end as a failed one: the
\* mutation is not rejected, and the reason of the abort is not its error.
C23_CancelIsNoFailure ==
    ~(pc = "failed" /\ outcome.state = "error" /\ outcome.message \in CancelReasons)

\* C24 as stated: only a transport-level failure of the proxy call gives the
\* generic network message, so a submission that failed with it has made
\* its proxy call.
C24_Original == outcome.message = MsgNetwork => proxyCalls # <<>>

\* C24: a submission that fails before its request is composed fails with
\* the message of the signing precondition; one that fails while the hook
\* runs, with the hook's own message or, the hook's error being a
\* TypeError, with the generic network message; one that fails at the proxy
\* call, with the generic network message; one that fails on a non-2xx
\* answer, with the answer's text or, the text being empty, with "Proxy
\* request failed (<status>)"; and, its signal having been aborted, with
\* the reason of the abort instead.
C24_FailureMessages ==
    [][(pc # "failed" /\ pc' = "failed") =>
          /\ outcome'.state = "error"
          /\ pc = "idle" =>
                /\ op.isSigned /\ proxyCalls' = <<>>
                /\ outcome'.message =
                      (IF trim(signedData'.apiSecret) = <<>> THEN MsgSecret ELSE MsgApiKey)
          /\ pc = "authorizing" => outcome'.message \in {"Unauthorized", MsgNetwork}
          /\ pc = "proxy" =>
                outcome'.message = (IF signal.aborted THEN signal.reason ELSE MsgNetwork)
          /\ pc = "reading" =>
                \/ signal.aborted /\ outcome'.message = signal.reason
                \/ /\ ~proxyRes.ok
                   /\ proxyRes.text # "" => outcome'.message = proxyRes.text
                   /\ (proxyRes.text = "" /\ proxyRes.status = 502) =>
                          outcome'.message = "Proxy request failed (502)"]_vars

C24_Witness ==
    /\ pc = "failed" /\ outcome.message = MsgNetwork
    /\ hookCalls # <<>> /\ proxyCalls = <<>>

\* C25: the warning flag is set only while a submission is pending, the
\* timer of a submission that has ended (by success, by failure or by the
\* user's abort) is no longer armed, so that it cannot raise the flag, and
\* the timer of a pending submission has fired only if the submission was
\* pending when it did.
C25_WarningOnlyWhilePending ==
    /\ showLongRunningWarning => Runs # <<>>
    /\ pc \notin Busy => warningTimeout \in {"none", "cleared"}
    /\ \A k \in DOMAIN Runs :
          Runs[k].warningTimeout \in {"armed", "fired"} =>
              Runs[k].pc \in {"authorizing", "proxy"}

C25_Witness ==
    /\ pc = "failed" /\ signal.aborted /\ outcome.message = S_cancelledByTheUser
    /\ warningTimeout = "cleared" /\ ~showLongRunningWarning

Sent == proxyCalls[Len(proxyCalls)]
Echo == outcome.result.request

\* C27: the request echo of a successful submission has the method, the url
\* and the body of the envelope that was sent (no body being echoed as the
\* empty text), and its headers are Host and User-Agent followed by the
\* envelope's headers.
C27_RequestEcho ==
    pc = "succeeded" =>
        /\ Echo.method = Sent.method
        /\ Echo.url = Sent.url
        /\ Len(Echo.headers) = Len(Sent.headers) + 2
        /\ Echo.headers[1][1] = S_Host /\ Echo.headers[2][1] = S_UserAgent
        /\ SubSeq(Echo.headers, 3, Len(Echo.headers)) = Sent.headers
        /\ Echo.body = (IF Sent.body.has THEN Sent.body.v ELSE <<>>)

\* the parts of a text between its "&"s
RECURSIVE SplitAmp(_, _)
SplitAmp(text, part) ==
    IF text = <<>> THEN <<part>>
    ELSE IF Head(text) = "&" THEN <<part>> \o SplitAmp(Tail(text), <<>>)
    ELSE SplitAmp(Tail(text), Append(part, Head(text)))

\* how often a pair is among the parts of the signed string, and how often
\* among the signed query params of the outgoing sequence
TimesSigned(pair) == Len(SelectSeq(SplitAmp(toSign.v, <<>>), LAMBDA x : x = pair))
TimesSent(pair) == Len(SelectSeq(SignedNamed, LAMBDA x : Pair(x.name, x.value) = pair))

\* C28: at the proxy call of a signed submission, each active, named query
\* param of the outgoing sequence other than signature is in the signed
\* string with its value, as often as it is in the sequence, a repeated
\* name with different values included.
C28_SignatureCoversSent ==
    (op.isSigned /\ toSign.has /\ proxyCalls # <<>> /\ ~BodySigned) =>
        \A i \in DOMAIN SignedNamed :
            LET pair == Pair(SignedNamed[i].name, SignedNamed[i].value)
            IN  TimesSigned(pair) = TimesSent(pair)

\* C29: the signed string of a signed GET or HEAD operation in text mode
\* whose body text is a JSON object holds the body's entries, as it does
\* for any other method, although the envelope of its proxy call carries no
\* body.
C29_BodySignedForGetHead ==
    (op.isSigned /\ IsGetOrHead(op.method) /\ proxyCalls # <<>>
       /\ BodySigned /\ BodySerial # <<>>) =>
        /\ toSign.v = QueryComponent \o <<"&">> \o BodySerial
        /\ TimesSigned(BodySerial) = 1
        /\ \A i \in DOMAIN proxyCalls : ~proxyCalls[i].body.has

C29_Witness ==
    /\ op.isSigned /\ op.method = S_get /\ pc = "succeeded"
    /\ signedData.body = <<"{","a",":","1","}">>
    /\ toSign.v = Pair(S_symbol, <<"1">>) \o <<"&">> \o Pair(S_timestamp, <<"9">>)
                     \o <<"&","a","=","1">>
    /\ ~Sent.body.has

(***************************************************************************)
(* Properties of the documentation page.                                   *)
(***************************************************************************)
\* C30: for every value of the operation's x-signed extension the operation
\* view shows the endpoint as signed exactly if the playground opened for
\* the operation is a signed one and, on a submission that gets as far as
\* its proxy call, has run the signature engine.
C30_SignedFlagsAgree ==
    (view.rendered /\ pc # "off") =>
        /\ view.isSigned <=> op.isSigned
        /\ proxyCalls # <<>> => (view.isSigned <=> toSign.has)

====
